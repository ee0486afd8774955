----------------------------- MODULE MESITables ------------------------------
(***************************************************************************)
(* The MESI tables of the snooping system,                                 *)
(* Protocols_FSM/MESI_splitBus_snooping.csv and Protocols_FSM/MESI_LLC.csv, *)
(* and the choice between them and the MSI ones.  The L1 table has a       *)
(* twelfth column, OwnData_Execlusive, and differs from MSI's in the rows  *)
(* written out here.                                                       *)
(***************************************************************************)
EXTENDS MSITables, SequencesExt

MESIL1Rows ==
  [IS_d |->
     <<Stall, Stall, Stall, Fault, Fault, Fault, DoTo({"SaveReq"}, "IES_d"),
       DoTo({"SaveReq"}, "IS_dI"), Stay, DoTo({"Hit"}, "S"), To("IS_dI"),
       DoTo({"Hit"}, "E")>>,
   IS_dI |->
     <<Stall, Stall, Stall, Fault, Fault, Fault, Stay, Stay, Stay,
       DoTo({"Hit", "removeSavedReq"}, "I"), Stay, DoTo({"Hit", "Data2Req"}, "I")>>,
   MI_a |->
     <<Do({"Hit"}), Do({"Hit"}), Stall, Fault, Fault, DoTo({"Data2Req"}, "I"),
       DoTo({"Data2Both"}, "II_a"), DoTo({"Data2Req"}, "II_a"), Stay, Fault,
       DoTo({"Data2Req"}, "II_a"), Fault>>,
   E |->
     <<Do({"Hit"}), DoTo({"Hit"}, "M"), DoTo({"PutM"}, "MI_a"), Fault, Fault, Fault,
       DoTo({"Data2Both"}, "S"), DoTo({"Data2Req"}, "I"), Stay, Fault,
       DoTo({"Data2Req"}, "I"), Fault>>,
   IES_d |->
     <<Stall, Stall, Stall, Fault, Fault, Fault, Stay, To("IES_dI"), Stay,
       DoTo({"Hit", "removeSavedReq"}, "S"), To("IS_dI"),
       DoTo({"Hit", "Data2Both"}, "S")>>,
   IES_dI |->
     <<Stall, Stall, Stall, Fault, Fault, Fault, Stay, Stay, Stay,
       DoTo({"Hit", "removeSavedReq"}, "S"), To("IS_dI"),
       DoTo({"Hit", "Data2Both"}, "I")>>]

MESIL1Table ==
  [s \in (L1States \ {"MII_a"}) \cup DOMAIN MESIL1Rows |->
     IF s \in DOMAIN MESIL1Rows THEN MESIL1Rows[s] ELSE Append(L1Table[s], Fault)]

MESILLCTable ==
  [N |->
     <<DoTo({"GetData", "SetOwner"}, "NE_d"), DoTo({"GetData", "SetOwner"}, "NM_d"),
       Stay, Fault, Stay, Fault, Fault, DoTo({"SaveData"}, "N")>>,
   NE_d |->
     <<Stall, Stall, Stall, Fault, Fault, Fault, DoTo({"SendExeclusiveData"}, "EorM"),
       Fault>>,
   NM_d |->
     <<Stall, Stall, Stall, Fault, Fault, Fault, DoTo({"SendData"}, "EorM"), Fault>>,
   I |->
     <<DoTo({"SendExeclusiveData", "SetOwner"}, "EorM"),
       DoTo({"SendData", "SetOwner"}, "EorM"), Do({"IssueInv"}), Fault, Stay, Fault,
       Fault, DoTo({"WriteBack"}, "N")>>,
   S |->
     <<Do({"SendData"}), DoTo({"SendData", "SetOwner"}, "EorM"), Do({"IssueInv"}),
       Fault, Stay, Fault, Fault, DoTo({"WriteBack"}, "N")>>,
   EorM |->
     <<DoTo({"ClearOwner"}, "S_d"), Do({"SetOwner"}), Do({"IssueInv"}),
       DoTo({"ClearOwner"}, "I_d"), Stay, DoTo({"SaveData"}, "IorS_a"), Fault,
       DoTo({"ClearOwner"}, "MN_d")>>,
   IorS_a |->
     <<DoTo({"ClearOwner"}, "S"), Stall, Stall, DoTo({"ClearOwner"}, "I"), Stay,
       Fault, Fault, DoTo({"WriteBack"}, "N_a")>>,
   MN_d |->
     <<Stall, Stall, Stall, Fault, Stay, DoTo({"WriteBack"}, "N"), Fault,
       DoTo({"SaveData"}, "MN_d")>>,
   S_d |->
     <<Stall, Stall, Stall, Fault, Stay, DoTo({"SaveData"}, "S"), Fault, To("MN_d")>>,
   I_d |->
     <<Stall, Stall, Stall, Fault, Stay, DoTo({"SaveData"}, "I"), Fault, To("MN_d")>>,
   N_a |->
     <<DoTo({"ClearOwner"}, "N"), Stall, Stall, DoTo({"ClearOwner"}, "N"), Stay,
       Fault, Fault, Fault>>]

\* The cell of a protocol's table that a state and an event select.
L1CellOf(protocol, s, event) ==
  IF protocol = "MSI" THEN L1Cell(s, event)
  ELSE IF event = "OwnData_Execlusive" THEN Last(MESIL1Table[s])
  ELSE MESIL1Table[s][L1Column[event]]

LLCCellOf(protocol, s, event) ==
  IF protocol = "MSI" THEN LLCCell(s, event) ELSE MESILLCTable[s][LLCColumn[event]]

L1StatesOf == [MSI |-> L1States, MESI |-> DOMAIN MESIL1Table]

\* States of each protocol whose Load, or Store, is a Hit.
ReadableIn ==
  [p \in {"MSI", "MESI"} |-> {s \in L1StatesOf[p] : "Hit" \in L1CellOf(p, s, "Load").acts}]
WritableIn ==
  [p \in {"MSI", "MESI"} |-> {s \in L1StatesOf[p] : "Hit" \in L1CellOf(p, s, "Store").acts}]
=============================================================================
