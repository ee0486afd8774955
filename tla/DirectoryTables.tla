-------------------------- MODULE DirectoryTables ---------------------------
(***************************************************************************)
(* The coherence tables of the directory protocols, as FSMReader loads     *)
(* them from Protocols_FSM/{MSI,MESI,MOESI}[_LLC]_directory.csv.  A row is *)
(* a state, a position an event; a row's trailing faults are left out. MESI *)
(* is written as what it changes of MSI, MOESI as what it changes of MESI. *)
(***************************************************************************)
EXTENDS Integers, Sequences, TLC

\* FSMState's parse of one cell: its actions and the state it names, if any.
Cell(acts, next) == [acts |-> acts, next |-> next]
To(s) == Cell({}, s)
Do(acts) == Cell(acts, "")
DoTo(acts, s) == Cell(acts, s)
o == Cell({}, "")
Z == Do({"Stall"})
F == Do({"Fault"})

L1Column ==
  [Load |-> 1, Store |-> 2, Replacement |-> 3, Fwd_GetS |-> 4, Fwd_GetM |-> 5, Inv |-> 6,
   Put_Ack |-> 7, Data_zeroAck |-> 8, Data_nonZeroAck |-> 9, DataFromOwner |-> 10,
   InvAck |-> 11, lastInvAck |-> 12, Data_execlusive |-> 13, AckCount |-> 14,
   AckCount_zero |-> 15, DataFromOwner_nonZeroAck |-> 16, InvM |-> 17]

LLCColumn ==
  [GetS |-> 1, GetM |-> 2, Replacement |-> 3, PutS |-> 4, last_PutS |-> 5, InvAck |-> 6,
   last_InvAck |-> 7, PutM_Data_fromOwner |-> 8, PutM_Data_fromNonOwner |-> 9,
   Data_fromLowerInterface |-> 10, Data_fromUpperInterface |-> 11, PutE_fromOwner |-> 12,
   PutE_fromNonOwner |-> 13, GetM_fromOwner |-> 14, PutO_Data_fromOwner |-> 15,
   PutO_Data_fromNonOwner |-> 16, last_PutO_fromOwner |-> 17,
   Data_fromLowerInterface_lastAck |-> 18]

MSIL1 ==
  [I |-> <<DoTo({"GetS"}, "IS_d"), DoTo({"GetM"}, "IM_ad"), o>>,
   IS_d |-> <<Z, Z, Z, F, F, DoTo({"InvAck2Req"}, "IS_dI"), F, DoTo({"Hit"}, "S"), F,
         DoTo({"Hit"}, "S")>>,
   IS_dI |-> <<Z, Z, Z, F, F, F, F, DoTo({"Hit"}, "I"), F, DoTo({"Hit"}, "I")>>,
   IM_ad |-> <<Z, Z, Z, Z, Z, Z, F, DoTo({"Hit"}, "M"), DoTo({"AckNum_set"}, "IM_a"),
         DoTo({"Hit"}, "M"), Do({"Ack_dec"})>>,
   IM_a |-> <<Z, Z, Z, DoTo({"SaveReq"}, "IM_aS"), DoTo({"SaveReq"}, "IM_aI"), F, F, F, F, F,
         Do({"Ack_dec"}), DoTo({"Hit", "Ack_dec"}, "M")>>,
   IM_aS |-> <<Z, Z, Z, F, F, DoTo({"InvAck2Req"}, "IM_aSI"), F, F, F, F, Do({"Ack_dec"}),
         DoTo({"Hit", "Ack_dec", "Data2Both"}, "S")>>,
   IM_aSI |-> <<Z, Z, Z, F, F, F, F, F, F, F, Do({"Ack_dec"}),
         DoTo({"Hit", "Data2Both", "Ack_dec"}, "I")>>,
   IM_aI |-> <<Z, Z, Z, F, F, F, F, F, F, F, Do({"Ack_dec"}),
         DoTo({"Hit", "Data2Req", "Ack_dec"}, "I")>>,
   S |-> <<Do({"Hit"}), DoTo({"GetM"}, "SM_ad"), DoTo({"PutS"}, "SI_a"), F, F,
         DoTo({"InvAck2Req"}, "I")>>,
   SM_ad |-> <<Do({"Hit"}), Z, Z, Z, Z, DoTo({"InvAck2Req"}, "IM_ad"), F, DoTo({"Hit"}, "M"),
         DoTo({"AckNum_set"}, "SM_a"), F, Do({"Ack_dec"})>>,
   SM_a |-> <<Do({"Hit"}), Z, Z, Z, Z, F, F, F, F, F, Do({"Ack_dec"}),
         DoTo({"Hit", "Ack_dec"}, "M")>>,
   M |-> <<Do({"Hit"}), Do({"Hit"}), DoTo({"PutM_Data"}, "MI_a"), DoTo({"Data2Both"}, "S"),
         DoTo({"Data2Req"}, "I"), DoTo({"InvAck_Data"}, "I")>>,
   MI_a |-> <<Z, Z, Z, DoTo({"Data2Both"}, "SI_a"), DoTo({"Data2Req"}, "II_a"), o, To("I")>>,
   SI_a |-> <<Z, Z, Z, F, F, DoTo({"InvAck2Req"}, "II_a"), To("I")>>,
   II_a |-> <<Z, Z, Z, F, F, F, To("I")>>]

MSILLC ==
  [N |-> <<DoTo({"GetData", "IncSharers"}, "NS_d"), DoTo({"SetOwner", "GetData"}, "NM_d"), F,
         F, F, F, F, F, Do({"PutAck"})>>,
   NS_d |-> <<Z, Z, Z, F, F, F, F, F, Do({"PutAck"}), F, DoTo({"SendData"}, "S")>>,
   NM_d |-> <<Z, Z, Z, F, F, F, F, F, Do({"PutAck"}), F, DoTo({"SendData"}, "M")>>,
   I |-> <<DoTo({"SendData", "IncSharers"}, "S"), DoTo({"SetOwner", "SendData"}, "M"),
         DoTo({"WriteBack"}, "N"), Do({"PutAck"}), Do({"PutAck"}), F, Do({"PutAck"}), F,
         Do({"PutAck"})>>,
   S |-> <<Do({"SendData", "IncSharers"}), DoTo({"SetOwner", "SendData", "SendInv"}, "M"),
         DoTo({"SendInv", "WriteBack"}, "N_a"), Do({"PutAck", "DecSharers"}),
         DoTo({"PutAck", "DecSharers"}, "I"), F, F, F, Do({"PutAck", "DecSharers"})>>,
   M |-> <<DoTo({"ClearOwner", "FwdGetS", "IncSharers"}, "S_d"), Do({"SetOwner", "FwdGetM"}),
         DoTo({"SendInv"}, "N_d"), Do({"PutAck"}), Do({"PutAck"}), Do({"DecSharers"}),
         Do({"DecSharers"}), DoTo({"ClearOwner", "DecSharers", "PutAck", "SaveData"}, "I"),
         Do({"PutAck"})>>,
   S_d |-> <<Z, Z, Z, Z, Z, F, F, F, Do({"PutAck", "DecSharers"}), DoTo({"SaveData"}, "S")>>,
   N_d |-> <<Z, Z, Z, F, F, F, DoTo({"ClearOwner", "DecSharers", "WriteBack"}, "N"),
         DoTo({"ClearOwner", "DecSharers", "PutAck", "WriteBack"}, "N"), Do({"PutAck"}),
         DoTo({"DecSharers", "WriteBack"}, "N")>>,
   N_a |-> <<Z, Z, Z, Do({"PutAck"}), Do({"PutAck"}), Do({"DecSharers"}),
         DoTo({"DecSharers"}, "N"), F, Do({"PutAck"})>>]

MESIL1 ==
  [IS_d |-> <<Z, Z, Z, Z, Z, DoTo({"InvAck2Req"}, "IS_dI"), F, DoTo({"Hit"}, "S"), F,
         DoTo({"Hit"}, "S"), F, F, DoTo({"Hit"}, "E")>>,
   IS_dI |-> <<Z, Z, Z, Z, Z, F, F, DoTo({"Hit"}, "I"), F, DoTo({"Hit"}, "I"), F, F,
         DoTo({"Hit", "Data2Req"}, "I")>>,
   SM_a |-> <<Do({"Hit"}), Z, Z, DoTo({"SaveReq"}, "SM_aS"), DoTo({"SaveReq"}, "SM_aI"), F, F, F,
         F, F, Do({"Ack_dec"}), DoTo({"Hit", "Ack_dec"}, "M")>>,
   SM_aS |-> <<Z, Z, Z, F, F, DoTo({"InvAck2Req"}, "SM_aSI"), F, F, F, F, Do({"Ack_dec"}),
         DoTo({"Hit", "Ack_dec", "Data2Both"}, "S")>>,
   SM_aSI |-> <<Z, Z, Z, F, F, F, F, F, F, F, Do({"Ack_dec"}),
         DoTo({"Hit", "Data2Both", "Ack_dec"}, "I")>>,
   SM_aI |-> <<Z, Z, Z, F, F, F, F, F, F, F, Do({"Ack_dec"}),
         DoTo({"Hit", "Data2Req", "Ack_dec"}, "I")>>,
   E |-> <<Do({"Hit"}), DoTo({"Hit"}, "M"), DoTo({"PutE"}, "EI_a"), DoTo({"Data2Both"}, "S"),
         DoTo({"Data2Req"}, "I"), DoTo({"InvAck_Data"}, "I")>>,
   EI_a |-> <<Z, Z, Z, DoTo({"Data2Both"}, "SI_a"), DoTo({"Data2Req"}, "II_a"), o, To("I")>>] @@ MSIL1

MESILLC ==
  [N |-> <<DoTo({"SetOwner", "GetData"}, "NE_d"), DoTo({"SetOwner", "GetData"}, "NM_d")>>,
   NE_d |-> <<Z, Z, Z, F, F, F, F, F, F, F, DoTo({"SendEData"}, "E")>>,
   NM_d |-> <<Z, Z, Z, F, F, F, F, F, F, F, DoTo({"SendData"}, "M")>>,
   I |-> <<DoTo({"SetOwner", "SendEData"}, "E"), DoTo({"SetOwner", "SendData"}, "M"),
         DoTo({"WriteBack"}, "N"), Do({"PutAck"}), Do({"PutAck"}), F, o, F, Do({"PutAck"}),
         F, F, F, Do({"PutAck"})>>,
   S |-> <<Do({"SendData", "IncSharers"}), DoTo({"SetOwner", "SendData", "SendInv"}, "M"),
         DoTo({"SendInv", "WriteBack"}, "N_a"), Do({"PutAck", "DecSharers"}),
         DoTo({"PutAck", "DecSharers"}, "I"), F, F, F, Do({"PutAck", "DecSharers"}), F, F, F,
         Do({"PutAck", "DecSharers"})>>,
   E |-> <<DoTo({"ClearOwner", "FwdGetS", "IncSharers"}, "S_d"), Do({"SetOwner", "FwdGetM"}),
         DoTo({"SendInv"}, "N_d"), Do({"PutAck"}), Do({"PutAck"}), Do({"DecSharers"}),
         Do({"DecSharers"}), DoTo({"ClearOwner", "DecSharers", "PutAck", "SaveData"}, "I"),
         Do({"PutAck"}), F, F, DoTo({"ClearOwner", "DecSharers", "PutAck"}, "I"),
         Do({"PutAck"})>>,
   M |-> <<DoTo({"ClearOwner", "FwdGetS", "IncSharers"}, "S_d"), Do({"SetOwner", "FwdGetM"}),
         DoTo({"SendInv"}, "N_d"), Do({"PutAck"}), Do({"PutAck"}), Do({"DecSharers"}),
         Do({"DecSharers"}), DoTo({"ClearOwner", "DecSharers", "PutAck", "SaveData"}, "I"),
         Do({"PutAck"}), F, F, F, Do({"PutAck"})>>,
   S_d |-> <<Z, Z, Z, Z, Z, F, F, F, Do({"PutAck", "DecSharers"}), DoTo({"SaveData"}, "S"), F, F,
         Do({"PutAck", "DecSharers"})>>,
   N_d |-> <<Z, Z, Z, F, F, F, o, DoTo({"ClearOwner", "DecSharers", "PutAck", "WriteBack"}, "N"),
         Do({"PutAck"}), DoTo({"DecSharers", "WriteBack"}, "N"), F,
         DoTo({"ClearOwner", "DecSharers", "PutAck"}, "N"), Do({"PutAck"})>>,
   N_a |-> <<Z, Z, Z, Do({"PutAck"}), Do({"PutAck"}), Do({"DecSharers"}),
         DoTo({"DecSharers"}, "N")>>] @@ MSILLC

MOESIL1 ==
  [IS_d |-> <<Z, Z, Z, Z, Z, DoTo({"InvAck2Req"}, "IS_dI"), F, DoTo({"Hit"}, "S"), F,
         DoTo({"Hit"}, "S"), F, F, DoTo({"Hit"}, "E"), F, F, F, To("IS_dInvM")>>,
   IM_ad |-> <<Z, Z, Z, Z, Z, Z, F, DoTo({"Hit"}, "M"), DoTo({"AckNum_set"}, "IM_a"),
         DoTo({"Hit"}, "M"), Do({"Ack_dec"}), F, F, F, F, DoTo({"AckNum_set"}, "IM_a"), Z>>,
   IM_a |-> <<Z, Z, Z, Z, Z, Z, F, F, F, F, Do({"Ack_dec"}), DoTo({"Hit", "Ack_dec"}, "M"), F, F,
         F, F, Z>>,
   SM_ad |-> <<Do({"Hit"}), Z, Z, Z, Z, DoTo({"InvAck2Req"}, "IM_ad"), F, DoTo({"Hit"}, "M"),
         DoTo({"AckNum_set"}, "SM_a"), DoTo({"Hit"}, "M"), Do({"Ack_dec"}), F, F, F, F,
         DoTo({"AckNum_set"}, "SM_a"), Z>>,
   SM_a |-> <<Do({"Hit"}), Z, Z, Z, Z, Z, F, F, F, F, Do({"Ack_dec"}),
         DoTo({"Hit", "Ack_dec"}, "M"), F, F, F, F, Z>>,
   M |-> <<Do({"Hit"}), Do({"Hit"}), DoTo({"PutM_Data"}, "MI_a"), DoTo({"Data2Req"}, "O"),
         DoTo({"Data2Req"}, "I"), DoTo({"InvAck_Data"}, "I"), F, F, F, F, F, F, F, F, F, F,
         DoTo({"InvAck_Data"}, "I")>>,
   E |-> <<Do({"Hit"}), DoTo({"Hit"}, "M"), DoTo({"PutE"}, "EI_a"), DoTo({"Data2Req"}, "O"),
         DoTo({"Data2Req"}, "I"), DoTo({"InvAck_Data"}, "I"), F, F, F, F, F, F, F, F, F, F,
         DoTo({"InvAck_Data"}, "I")>>,
   O |-> <<Do({"Hit"}), DoTo({"GetM"}, "OM_ac"), DoTo({"PutO_Data"}, "OI_a"), Do({"Data2Req"}),
         DoTo({"Data2Req"}, "I"), DoTo({"InvAck_Data"}, "I"), F, F, F, F, F, F, F, F, F, F,
         DoTo({"InvAck_Data"}, "I")>>,
   OM_ac |-> <<Do({"Hit"}), Z, Z, Do({"Data2Req"}), DoTo({"Data2Req"}, "IM_ad"),
         DoTo({"InvAck_Data"}, "IM_ad"), F, F, F, F, Do({"Ack_dec"}), F, F,
         DoTo({"SetAck"}, "OM_a"), DoTo({"Hit", "SetAck"}, "M"), F,
         DoTo({"InvAck_Data"}, "IM_ad")>>,
   OM_a |-> <<Do({"Hit"}), Z, Z, Z, Z, Z, F, F, F, F, Do({"Ack_dec"}),
         DoTo({"Hit", "Ack_dec"}, "M"), F, F, F, F, Z>>,
   OI_a |-> <<Z, Z, Z, Do({"Data2Req"}), DoTo({"Data2Req"}, "II_a"), o, To("I"), F, F, F, F, F, F,
         F, F, F, o>>,
   MI_a |-> <<Z, Z, Z, DoTo({"Data2Req"}, "OI_a"), DoTo({"Data2Req"}, "II_a"), o, To("I"), F, F,
         F, F, F, F, F, F, F, o>>,
   EI_a |-> <<Z, Z, Z, DoTo({"Data2Req"}, "SI_a"), DoTo({"Data2Req"}, "II_a"), o, To("I"), F, F,
         F, F, F, F, F, F, F, o>>,
   IS_dInvM |-> <<Z, Z, Z, Z, Z, F, F, DoTo({"Hit", "Data2Req"}, "I"), F,
         DoTo({"Hit", "Data2Req"}, "I"), F, F, DoTo({"Hit", "Data2Req"}, "I")>>] @@ MESIL1

MOESILLC ==
  [I |-> <<DoTo({"SetOwner", "SendEData"}, "E"), DoTo({"SetOwner", "SendData"}, "M"),
         DoTo({"WriteBack"}, "N"), Do({"PutAck"}), Do({"PutAck"}), F, Do({"PutAck"}), F,
         Do({"PutAck"}), F, F, F, Do({"PutAck"}), F, F, Do({"PutAck"})>>,
   S |-> <<Do({"SendData", "IncSharers"}), DoTo({"SetOwner", "SendData", "SendInv"}, "M"),
         DoTo({"SendInv", "WriteBack"}, "N_a"), Do({"PutAck", "DecSharers"}),
         DoTo({"PutAck", "DecSharers"}, "I"), F, F, F, Do({"PutAck", "DecSharers"}), F, F, F,
         Do({"PutAck", "DecSharers"}), F, F, Do({"PutAck", "DecSharers"})>>,
   E |-> <<DoTo({"FwdGetS", "IncSharers"}, "O"), Do({"SetOwner", "FwdGetM"}),
         DoTo({"SendInvM"}, "N_d"), Do({"PutAck"}), Do({"PutAck"}), Do({"DecSharers"}),
         Do({"DecSharers"}), DoTo({"ClearOwner", "DecSharers", "PutAck", "SaveData"}, "I"),
         Do({"PutAck"}), F, F, DoTo({"ClearOwner", "DecSharers", "PutAck"}, "I"),
         Do({"PutAck"}), F, F, Do({"PutAck"})>>,
   M |-> <<DoTo({"FwdGetS", "IncSharers"}, "O"), Do({"SetOwner", "FwdGetM"}),
         DoTo({"SendInvM"}, "N_d"), Do({"PutAck"}), Do({"PutAck"}), Do({"DecSharers"}),
         Do({"DecSharers"}), DoTo({"ClearOwner", "DecSharers", "PutAck", "SaveData"}, "I"),
         Do({"PutAck"}), F, F, F, Do({"PutAck"}), F, F, Do({"PutAck"})>>,
   O |-> <<Do({"FwdGetS", "IncSharers"}), DoTo({"SetOwner", "FwdGetM", "SendInv"}, "M"),
         DoTo({"SendInv"}, "N_ad"), Do({"PutAck", "DecSharers"}),
         Do({"PutAck", "DecSharers"}), F, F,
         DoTo({"ClearOwner", "DecSharers", "PutAck", "SaveData"}, "S"),
         Do({"PutAck", "DecSharers"}), F, F,
         DoTo({"ClearOwner", "DecSharers", "PutAck"}, "S"), F,
         DoTo({"SetOwner", "sendAckC", "SendInv"}, "M"),
         DoTo({"ClearOwner", "DecSharers", "PutAck", "SaveData"}, "S"),
         Do({"PutAck", "DecSharers"}),
         DoTo({"ClearOwner", "DecSharers", "PutAck", "SaveData"}, "I")>>,
   S_d |-> <<Z, Z, Z, Z, Z, F, F, F, Do({"PutAck", "DecSharers"}), DoTo({"SaveData"}, "S"), F, F,
         Do({"PutAck", "DecSharers"}), F, F, F, F, DoTo({"SaveData"}, "S")>>,
   N_ad |-> <<Z, Z, Z, Do({"PutAck"}), Do({"PutAck"}), Do({"DecSharers"}),
         DoTo({"DecSharers"}, "N_d"), F, Do({"PutAck"}),
         DoTo({"DecSharers", "SaveData"}, "N_a"), F, F, F, Z,
         DoTo({"ClearOwner", "DecSharers", "PutAck", "SaveData"}, "N_a"), Do({"PutAck"}),
         DoTo({"ClearOwner", "DecSharers", "PutAck", "WriteBack"}, "N"),
         DoTo({"DecSharers", "WriteBack"}, "N")>>,
   N_d |-> <<Z, Z, Z, F, F, F, F, DoTo({"ClearOwner", "DecSharers", "PutAck", "WriteBack"}, "N"),
         Do({"PutAck"}), DoTo({"DecSharers", "WriteBack"}, "N"), F,
         DoTo({"ClearOwner", "DecSharers", "PutAck", "WriteBack"}, "N"), Do({"PutAck"}), Z,
         F, Do({"PutAck"}), DoTo({"ClearOwner", "DecSharers", "PutAck", "WriteBack"}, "N"),
         DoTo({"DecSharers", "WriteBack"}, "N")>>,
   N_a |-> <<Z, Z, Z, Do({"PutAck"}), Do({"PutAck"}), Do({"DecSharers"}),
         DoTo({"DecSharers"}, "N"), F, F, F, F, F, F, Z>>] @@ MESILLC

L1Table(p) == CASE p = "MSI" -> MSIL1 [] p = "MESI" -> MESIL1 [] p = "MOESI" -> MOESIL1
LLCTable(p) == CASE p = "MSI" -> MSILLC [] p = "MESI" -> MESILLC [] p = "MOESI" -> MOESILLC

Lookup(row, col) == IF col > Len(row) THEN F ELSE row[col]

\* Mutants: a store completes with the data, before the acknowledgements; a shared
\* line's eviction is not acknowledged.
StoreBeforeAcks(p, s, event) ==
  LET cell == Lookup(L1Table(p)[s], L1Column[event]) IN
  IF s = "IM_ad" /\ event = "Data_nonZeroAck" THEN DoTo({"Hit", "AckNum_set"}, "M") ELSE cell
PutSNotAcknowledged(p, s, event) ==
  LET cell == Lookup(LLCTable(p)[s], LLCColumn[event]) IN
  IF event = "PutS" THEN [cell EXCEPT !.acts = @ \ {"PutAck"}] ELSE cell

L1Cell(p, s, event) == Lookup(L1Table(p)[s], L1Column[event])
LLCCell(p, s, event) == Lookup(LLCTable(p)[s], LLCColumn[event])

isStall(cell) == "Stall" \in cell.acts
getNextState(s, cell) == IF cell.next = "" THEN s ELSE cell.next

L1States == DOMAIN MESIL1 \cup DOMAIN MOESIL1
LLCStates == DOMAIN MESILLC \cup DOMAIN MOESILLC
=============================================================================
