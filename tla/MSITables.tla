----------------------------- MODULE MSITables -------------------------------
(***************************************************************************)
(* The MSI coherence tables of the snooping preset, as FSMReader loads     *)
(* them: Protocols_FSM/MSI_splitBus_snooping.csv for the L1s and           *)
(* Protocols_FSM/MSI_LLC.csv for the LLC.  A row is a state, a column is   *)
(* an event, a cell is the actions it runs and the state it leads to.      *)
(***************************************************************************)
EXTENDS Integers, Sequences

\* FSMState's parse of one cell: actions and the next state named; no name means
\* that the line keeps its state.
Cell(acts, next) == [acts |-> acts, next |-> next]
Stay == Cell({}, "")
To(s) == Cell({}, s)
Do(acts) == Cell(acts, "")
DoTo(acts, s) == Cell(acts, s)
Stall == Do({"Stall"})
Fault == Do({"Fault"})

L1Column ==
  [Load |-> 1, Store |-> 2, Replacement |-> 3, Own_GetS |-> 4, Own_GetM |-> 5,
   Own_PutM |-> 6, Other_GetS |-> 7, Other_GetM |-> 8, Other_PutM |-> 9,
   OwnData |-> 10, Invalidation |-> 11]

L1Table ==
  [I |->
     <<DoTo({"GetS"}, "IS_ad"), DoTo({"GetM"}, "IM_ad"), Stay, Fault, Fault, Fault,
       Stay, Stay, Stay, Fault, Stay>>,
   IS_ad |->
     <<Stall, Stall, Stall, To("IS_d"), Fault, Fault, Stay, Stay, Stay, To("IS_a"),
       Stay>>,
   IS_d |->
     <<Stall, Stall, Stall, Fault, Fault, Fault, Stay, To("IS_dI"), Stay,
       DoTo({"Hit"}, "S"), To("IS_dI")>>,
   IS_a |->
     <<Stall, Stall, Stall, DoTo({"Hit"}, "S"), Fault, Fault, Stay, Stay, Fault,
       Fault, To("IS_ad")>>,
   IS_dI |->
     <<Stall, Stall, Stall, Fault, Fault, Fault, Stay, Stay, Stay, DoTo({"Hit"}, "I"),
       Stay>>,
   IM_ad |->
     <<Stall, Stall, Stall, Fault, To("IM_d"), Fault, Stay, Stay, Stay, To("IM_a"),
       Stay>>,
   IM_d |->
     <<Stall, Stall, Stall, Fault, Fault, Fault, DoTo({"SaveReq"}, "IM_dS"),
       DoTo({"SaveReq"}, "IM_dI"), Stay, DoTo({"Hit"}, "M"),
       DoTo({"SaveReq"}, "IM_dI")>>,
   IM_a |->
     <<Stall, Stall, Stall, Fault, DoTo({"Hit"}, "M"), Fault, Stay, Stay, Stay, Fault,
       To("IM_ad")>>,
   IM_dI |->
     <<Stall, Stall, Stall, Fault, Fault, Fault, Stay, Stay, Stay,
       DoTo({"Hit", "Data2Req"}, "I"), Stay>>,
   IM_dS |->
     <<Stall, Stall, Stall, Fault, Fault, Fault, Stay, To("IM_dSI"), Stay,
       DoTo({"Hit", "Data2Both"}, "S"), To("IM_dSI")>>,
   IM_dSI |->
     <<Stall, Stall, Stall, Fault, Fault, Fault, Stay, Stay, Stay,
       DoTo({"Hit", "Data2Both"}, "I"), Stay>>,
   S |->
     <<Do({"Hit"}), DoTo({"GetM"}, "SM_ad"), To("I"), Fault, Fault, Fault, Stay,
       To("I"), Stay, Fault, To("I")>>,
   SM_ad |->
     <<Do({"Hit"}), Stall, Stall, Fault, To("SM_d"), Fault, Stay, To("IM_ad"), Stay,
       To("SM_a"), To("IM_ad")>>,
   SM_d |->
     <<Do({"Hit"}), Stall, Stall, Fault, Fault, Fault, DoTo({"SaveReq"}, "SM_dS"),
       DoTo({"SaveReq"}, "SM_dI"), Stay, DoTo({"Hit"}, "M"),
       DoTo({"SaveReq"}, "IM_dI")>>,
   SM_a |->
     <<Do({"Hit"}), Stall, Stall, Fault, DoTo({"Hit"}, "M"), Fault, Stay, To("IM_a"),
       Fault, Fault, To("IM_a")>>,
   SM_dI |->
     <<Do({"Hit"}), Stall, Stall, Fault, Fault, Fault, Stay, Stay, Stay,
       DoTo({"Hit", "Data2Req"}, "I"), Stay>>,
   SM_dS |->
     <<Do({"Hit"}), Stall, Stall, Fault, Fault, Fault, Stay, To("SM_dSI"), Stay,
       DoTo({"Hit", "Data2Both"}, "S"), To("SM_dSI")>>,
   SM_dSI |->
     <<Do({"Hit"}), Stall, Stall, Fault, Fault, Fault, Stay, Stay, Stay,
       DoTo({"Hit", "Data2Both"}, "I"), Stay>>,
   M |->
     <<Do({"Hit"}), Do({"Hit"}), DoTo({"PutM"}, "MI_a"), Fault, Fault, Fault,
       DoTo({"Data2Both"}, "S"), DoTo({"Data2Req"}, "I"), Stay, Fault,
       DoTo({"Data2Req"}, "I")>>,
   MI_a |->
     <<Do({"Hit"}), Do({"Hit"}), Stall, Fault, Fault, DoTo({"Data2Req"}, "I"),
       DoTo({"Data2Both"}, "II_a"), DoTo({"Data2Req"}, "II_a"), Stay, Fault,
       To("MII_a")>>,
   MII_a |->
     <<Do({"Hit"}), Do({"Hit"}), Stall, Fault, Fault, DoTo({"Data2Req"}, "I"), Stay,
       Stay, Stay, Fault, Stay>>,
   II_a |->
     <<Stall, Stall, Stall, Fault, Fault, To("I"), Stay, Stay, Stay, Fault, Stay>>]

LLCColumn ==
  [GetS |-> 1, GetM |-> 2, Replacement |-> 3, PutM_fromOwner |-> 4,
   PutM_fromNonOwner |-> 5, Data_fromLowerInterface |-> 6,
   Data_fromUpperInterface |-> 7, Own_Invalidation |-> 8]

LLCTable ==
  [N |->
     <<DoTo({"GetData"}, "NIorS_d"), DoTo({"GetData", "SetOwner"}, "NM_d"), Stay,
       Fault, Stay, Fault, Fault, Fault>>,
   NIorS_d |->
     <<Stall, Stall, Stall, Fault, Fault, Fault, DoTo({"SendData"}, "IorS"), Fault>>,
   NM_d |->
     <<Stall, Stall, Stall, Fault, Fault, Fault, DoTo({"SendData"}, "M"), Fault>>,
   IorS |->
     <<Do({"SendData"}), DoTo({"SendData", "SetOwner"}, "M"), Do({"IssueInv"}), Fault,
       Stay, Fault, Fault, DoTo({"WriteBack"}, "N")>>,
   M |->
     <<DoTo({"ClearOwner"}, "IorS_d"), Do({"SetOwner"}), Do({"IssueInv"}),
       DoTo({"ClearOwner"}, "IorS_d"), Stay, DoTo({"SaveData"}, "IorS_a"), Fault,
       DoTo({"ClearOwner"}, "N_d")>>,
   IorS_d |->
     <<Stall, Stall, Stall, Stall, Stay, DoTo({"SaveData"}, "IorS"), Fault, To("N_d")>>,
   IorS_a |->
     <<DoTo({"ClearOwner"}, "IorS"), Stall, Stall, DoTo({"ClearOwner"}, "IorS"), Stay,
       Fault, Fault, DoTo({"WriteBack"}, "N_a")>>,
   N_d |->
     <<Stall, Stall, Stall, Fault, Stay, DoTo({"WriteBack"}, "N"), Fault, Fault>>,
   N_a |->
     <<DoTo({"ClearOwner"}, "N"), Stall, Stall, DoTo({"ClearOwner"}, "N"), Stay,
       Fault, Fault, Fault>>]

L1States == DOMAIN L1Table
LLCStates == DOMAIN LLCTable

\* Mutant of L1Cell: a fill that was overtaken by another core's GetM is kept.
FillNotInvalidated(s, event) ==
  IF s = "IS_d" /\ event = "Other_GetM" THEN Stay ELSE L1Table[s][L1Column[event]]

\* Mutant of LLCCell: a write-back of a former owner is not expected once the line is
\* gone.
StalePutMUnexpected(s, event) ==
  IF s = "N" /\ event = "PutM_fromNonOwner" THEN Fault ELSE LLCTable[s][LLCColumn[event]]

\* Mutant of LLCCell: the LLC answers a GetM that the owner answers too.
AnswersForOwner(s, event) ==
  IF s = "M" /\ event = "GetM" THEN Do({"SendData", "SetOwner"})
  ELSE LLCTable[s][LLCColumn[event]]

\* The cell a state and an event select, and FSMReader's questions about it.
L1Cell(s, event) == L1Table[s][L1Column[event]]
LLCCell(s, event) == LLCTable[s][LLCColumn[event]]
isStall(cell) == "Stall" \in cell.acts
getNextState(s, cell) == IF cell.next = "" THEN s ELSE cell.next

\* The isDataValid column: every state but I, and every state but N, holds a line.
isValidState(s) == s \notin {"I", "N"}

=============================================================================
