------------------------- MODULE OutboundStoreProofs -------------------------
(***************************************************************************)
(* Chunks of an answer arrive in order, for any number of answers, chunks   *)
(* and processes that use the table.  The order alone is not inductive: a   *)
(* claim regards a row that does not exist as sent, so one needs that the   *)
(* rows of a group appear together (GroupsWhole).                          *)
(***************************************************************************)
EXTENDS OutboundStore, TLAPS

GroupsWhole ==
  \A a, b \in Actions : Group[a] = Group[b] => (a \in With("absent") <=> b \in With("absent"))

OutboundInv == OutboundTypeOK /\ GroupsWhole /\ SentInOrder

\* A step that only gives some existing rows a status outside of the order, and
\* takes no sent row away, keeps the invariant.
LEMMA HarmlessStep ==
  ASSUME OutboundInv, OutboundTypeOK',
         \A a \in Actions :
           \/ action'[a].status = action[a].status
           \/ /\ action[a].status \notin {"absent", "sent"}
              /\ action'[a].status # "absent"
              /\ action'[a].status \in {"sending", "sent", "ambiguous"}
                   => action[a].status \in {"sending", "sent", "ambiguous"}
  PROVE  OutboundInv'
<1>1. GroupsWhole' BY DEF OutboundInv, GroupsWhole, With
<1>2. SentInOrder'
  <2> SUFFICES ASSUME NEW b \in Actions, NEW a \in Before(b),
                      action'[b].status \in {"sending", "sent", "ambiguous"}
               PROVE  action'[a].status = "sent"
    BY DEF SentInOrder, With, Before
  <2>1. action[b].status \in {"sending", "sent", "ambiguous"} OBVIOUS
  <2>2. action[a].status = "sent" BY <2>1 DEF OutboundInv, SentInOrder, With
  <2>3. QED BY <2>2 DEF Before
<1>3. QED BY <1>1, <1>2 DEF OutboundInv
 
\* A group that is created is created whole.
LEMMA CreateStep ==
  ASSUME OutboundInv, NEW g,
         CreateOutboundActions({a \in Actions : Group[a] = g})
  PROVE  OutboundInv'
<1> DEFINE S == {a \in Actions : Group[a] = g} \cap With("absent")
<1>1. Row("pending", "now") \in OutboundRows BY DEF Row, OutboundRows
<1>2. OutboundTypeOK' BY <1>1 DEF OutboundInv, OutboundTypeOK, CreateOutboundActions, SetRows
<1>3. \A a \in Actions : action'[a] = IF a \in S THEN Row("pending", "now") ELSE action[a]
  BY DEF CreateOutboundActions, SetRows
<1>4. \A a \in Actions : a \in S => action'[a].status = "pending" BY <1>3 DEF Row
<1>5. GroupsWhole' BY <1>3, <1>4 DEF OutboundInv, GroupsWhole, With
<1>6. SentInOrder'
  <2> SUFFICES ASSUME NEW b \in Actions, NEW a \in Before(b),
                      action'[b].status \in {"sending", "sent", "ambiguous"}
               PROVE  action'[a].status = "sent"
    BY DEF SentInOrder, With, Before
  <2>1. b \notin S /\ action'[b] = action[b] BY <1>3, <1>4
  <2>2. a \in Actions /\ action[a].status = "sent"
    BY <2>1 DEF OutboundInv, SentInOrder, With, Before
  <2>3. QED BY <1>3, <2>2 DEF With
<1>7. QED BY <1>2, <1>5, <1>6 DEF OutboundInv

\* A claim takes a chunk only when those before it have arrived.
LEMMA ClaimStep ==
  ASSUME OutboundInv, NEW S \in SUBSET Actions, ClaimDueOutboundActions(S)
  PROVE  OutboundInv'
<1>1. \A a \in Actions : action'[a] = IF a \in S THEN [action[a] EXCEPT !.status = "sending"] ELSE action[a]
  BY DEF ClaimDueOutboundActions
<1>2. OutboundTypeOK' BY DEF OutboundInv, OutboundTypeOK, OutboundRows, ClaimDueOutboundActions
<1>3. \A a \in S : action[a].status \in {"pending", "failed"} /\ action'[a].status = "sending"
  <2>1. S \subseteq Waiting BY DEF ClaimDueOutboundActions, Claimable, Due
  <2>2. \A a \in S : a \in Actions /\ action[a].status \in {"pending", "failed"}
    BY <2>1 DEF Waiting, With
  <2>3. \A a \in S : action[a] \in OutboundRows BY DEF OutboundInv, OutboundTypeOK
  <2>4. \A row \in OutboundRows : [row EXCEPT !.status = "sending"].status = "sending"
    BY DEF OutboundRows
  <2>5. QED BY <1>1, <2>2, <2>3, <2>4
<1>4. GroupsWhole' 
  <2>1. \A a \in Actions : action'[a].status = "absent" <=> action[a].status = "absent"
    BY <1>1, <1>3
  <2>2. QED BY <2>1 DEF OutboundInv, GroupsWhole, With
<1>5. SentInOrder'
  <2> SUFFICES ASSUME NEW b \in Actions, NEW a \in Before(b),
                      action'[b].status \in {"sending", "sent", "ambiguous"}
               PROVE  action'[a].status = "sent"
    BY DEF SentInOrder, With, Before
  <2>1. action[a].status = "sent"
    <3>1. CASE b \in S
      <4>1. a \in With("sent") \cup With("absent") BY <3>1 DEF ClaimDueOutboundActions, Claimable
      <4>2. b \notin With("absent") BY <3>1, <1>3 DEF With
      <4>3. a \notin With("absent") BY <4>2 DEF OutboundInv, GroupsWhole, Before
      <4>4. QED BY <4>1, <4>3 DEF With
    <3>2. CASE b \notin S BY <3>2, <1>1 DEF OutboundInv, SentInOrder, With
    <3>3. QED BY <3>1, <3>2
  <2>2. a \in Actions /\ a \notin S BY <2>1, <1>3 DEF Before
  <2>3. QED BY <2>1, <2>2, <1>1
<1>6. QED BY <1>2, <1>4, <1>5 DEF OutboundInv

\* The invariant holds at the start.
LEMMA OutboundInit == Init => OutboundInv
  BY DEF Init, OutboundInv, OutboundTypeOK, OutboundRows, Row, GroupsWhole, SentInOrder, With

\* Every statement keeps it.
LEMMA OutboundStep == OutboundInv /\ [Next]_action => OutboundInv'
<1> SUFFICES ASSUME OutboundInv, [Next]_action PROVE OutboundInv' OBVIOUS
<1>0. OutboundTypeOK BY DEF OutboundInv
<1>1. ASSUME NEW g, CreateOutboundActions({a \in Actions : Group[a] = g}) PROVE OutboundInv'
  BY <1>1, CreateStep
<1>2. ASSUME NEW S \in SUBSET Actions, ClaimDueOutboundActions(S) PROVE OutboundInv'
  BY <1>2, ClaimStep
<1>3. ASSUME NEW S \in SUBSET Actions, SupersedeOutboundActions(S) PROVE OutboundInv'
  <2>1. Row("failed", "never") \in OutboundRows /\ Row("failed", "never").status = "failed"
    BY DEF Row, OutboundRows
  <2>2. SetRows(S \cap Waiting, Row("failed", "never")) BY <1>3 DEF SupersedeOutboundActions
  <2>3. OutboundTypeOK' BY <1>0, <2>1, <2>2 DEF OutboundTypeOK, SetRows
  <2>4. \A a \in Actions : action'[a] = IF a \in S \cap Waiting THEN Row("failed", "never") ELSE action[a]
    BY <2>2 DEF SetRows
  <2>5. QED BY <2>1, <2>3, <2>4, HarmlessStep DEF Waiting, With
<1>4. ASSUME NEW a \in Actions, MarkOutboundSent(a) PROVE OutboundInv'
  <2>1. Row("sent", "never") \in OutboundRows /\ Row("sent", "never").status = "sent"
    BY DEF Row, OutboundRows
  <2>2. SetRows({a}, Row("sent", "never")) /\ action[a].status = "sending"
    BY <1>4 DEF MarkOutboundSent, With
  <2>3. OutboundTypeOK' BY <1>0, <2>1, <2>2 DEF OutboundTypeOK, SetRows
  <2>4. \A b \in Actions : action'[b] = IF b = a THEN Row("sent", "never") ELSE action[b]
    BY <2>2 DEF SetRows
  <2>5. QED BY <2>1, <2>2, <2>3, <2>4, HarmlessStep
<1>5. ASSUME NEW a \in Actions, MarkOutboundAmbiguous(a) PROVE OutboundInv'
  <2>1. Row("ambiguous", "never") \in OutboundRows /\ Row("ambiguous", "never").status = "ambiguous"
    BY DEF Row, OutboundRows
  <2>2. SetRows({a}, Row("ambiguous", "never")) /\ action[a].status = "sending"
    BY <1>5 DEF MarkOutboundAmbiguous, With
  <2>3. OutboundTypeOK' BY <1>0, <2>1, <2>2 DEF OutboundTypeOK, SetRows
  <2>4. \A b \in Actions : action'[b] = IF b = a THEN Row("ambiguous", "never") ELSE action[b]
    BY <2>2 DEF SetRows
  <2>5. QED BY <2>1, <2>2, <2>3, <2>4, HarmlessStep
<1>6. ASSUME NEW a \in Actions, NEW due \in {"never", "later"}, MarkOutboundFailed(a, due)
      PROVE  OutboundInv'
  <2>1. Row("failed", due) \in OutboundRows /\ Row("failed", due).status = "failed"
    BY DEF Row, OutboundRows
  <2>2. SetRows({a}, Row("failed", due)) /\ action[a].status = "sending"
    BY <1>6 DEF MarkOutboundFailed, With
  <2>3. OutboundTypeOK' BY <1>0, <2>1, <2>2 DEF OutboundTypeOK, SetRows
  <2>4. \A b \in Actions : action'[b] = IF b = a THEN Row("failed", due) ELSE action[b]
    BY <2>2 DEF SetRows
  <2>5. QED BY <2>1, <2>2, <2>3, <2>4, HarmlessStep
<1>7. ASSUME NEW a \in Actions, RetryComesDue(a) PROVE OutboundInv'
  <2>1. SetRows({a}, Row(action[a].status, "now")) BY <1>7 DEF RetryComesDue
  <2>2. Row(action[a].status, "now") \in OutboundRows
    BY <1>0 DEF Row, OutboundRows, OutboundTypeOK
  <2>3. OutboundTypeOK' BY <1>0, <2>1, <2>2 DEF OutboundTypeOK, SetRows
  <2>4. \A b \in Actions : action'[b].status = action[b].status BY <2>1 DEF SetRows, Row
  <2>5. QED BY <2>3, <2>4, HarmlessStep
<1>8. ASSUME RecoverInterruptedOutboundActions PROVE OutboundInv'
  <2>1. Row("ambiguous", "never") \in OutboundRows /\ Row("ambiguous", "never").status = "ambiguous"
    BY DEF Row, OutboundRows
  <2>2. SetRows(With("sending"), Row("ambiguous", "never"))
    BY <1>8 DEF RecoverInterruptedOutboundActions
  <2>3. OutboundTypeOK' BY <1>0, <2>1, <2>2 DEF OutboundTypeOK, SetRows
  <2>4. \A b \in Actions : action'[b] = IF b \in With("sending") THEN Row("ambiguous", "never") ELSE action[b]
    BY <2>2 DEF SetRows
  <2>5. QED BY <2>1, <2>3, <2>4, HarmlessStep DEF With
<1>9. CASE UNCHANGED action
  BY <1>9 DEF OutboundInv, OutboundTypeOK, GroupsWhole, SentInOrder, With, Before
<1>10. QED BY <1>1, <1>2, <1>3, <1>4, <1>5, <1>6, <1>7, <1>8, <1>9 DEF Next

\* Whoever uses the table in whatever order, and however often the service
\* restarts, no chunk is handed to Telegram before those that precede it.
THEOREM SendsInOrder == Spec => []SentInOrder
<1>1. OutboundInv => SentInOrder BY DEF OutboundInv
<1>2. QED BY <1>1, OutboundInit, OutboundStep, PTL DEF Spec
=============================================================================
