----------------------- MODULE SandboxLifecycleProofs -----------------------
(***************************************************************************)
(* Proofs about SandboxLifecycle for any number of calls, sandboxes and    *)
(* faults.  Three arguments carry them.  A live sandbox that is bound      *)
(* stays bound, because a binding is only deleted by a call that knows its *)
(* sandbox to be gone (Bound).  A call that was alone in its critical      *)
(* section has seen no other call at work, so what it read still holds     *)
(* (Alone).  Without a fault every call is alone, and what it leaves       *)
(* behind is bound (Quiet).                                                *)
(***************************************************************************)
EXTENDS SandboxLifecycle, TLAPS

\* What a call knows is a sandbox that was created.
Known ==
  /\ binding # None => binding <= made
  /\ \A c \in Calls : seen[c] # None => seen[c] <= made
  /\ \A c \in Calls : hand[c] # None => hand[c] <= made
  /\ \A c \in Calls : listed[c] \subseteq 1 .. made

\* A live sandbox that was read, or handed out, is bound.
Bound ==
  /\ \A c \in Calls : seen[c] \in live => binding = seen[c]
  /\ \A c \in Resolves : res[c] = "ok" /\ hand[c] \in live => binding =
      hand[c]
  /\ \A c \in Calls : pc[c] \in {"unbind", "forget"} => seen[c] \notin live
  /\ \A c \in Resolves : res[c] = "ok" => pc[c] \in {"unlock", "ended",
      "dead"}

Before == {"list", "pick", "dups", "adopt", "create", "recheck", "bind"}

\* A call alone in its critical section: it holds the lock and no other call is
\* at work; what it read still holds, it goes on to bind only an unbound session,
\* and what it made is its own until then.
Alone ==
  \A c \in Calls \ shared : InSection(c) =>
    /\ lock = c
    /\ \A o \in Calls : InSection(o) => o = c
    /\ pc[c] \in {"exists", "connect", "unbind"} => binding = seen[c]
    /\ pc[c] \in Before => binding = None
    /\ pc[c] \notin {"winner", "retire", "follow", "join"}
    /\ pc[c] \in {"recheck", "bind", "cleanup"} =>
         \A u \in Resolves : ~ Uses(u, hand[c])

\* What it has listed or made is all there is.
AllSeen ==
  \A c \in Calls \ shared : InSection(c) /\ listable =>
    /\ pc[c] \in {"pick", "dups"} => live \subseteq listed[c]
    /\ pc[c] \in {"adopt", "recheck", "bind"} => live \subseteq {hand[c]}
    /\ pc[c] = "create" => live = {}

SandboxInv == TypeOK /\ Known /\ Bound /\ Alone /\ AllSeen

-----------------------------------------------------------------------------
(* Types                                                                    *)

\* A sandbox can be made as long as one may be.
LEMMA NextBox ==
  ASSUME made \in 0 .. MaxBoxes, made < MaxBoxes
  PROVE  /\ made + 1 \in Boxes
         /\ made + 1 \in 1 .. (made + 1)
         /\ made + 1 \in 0 .. MaxBoxes
BY BoundsAssumption DEF Boxes

\* What was made is a sandbox.
LEMMA MadeAreBoxes ==
  ASSUME made \in 0 .. MaxBoxes
  PROVE  1 .. made \subseteq Boxes
BY BoundsAssumption DEF Boxes

\* Nobody is none of the calls.
LEMMA NoneIsNoCall == None \notin Calls
BY CallsAssumption DEF Calls

\* The labels of the critical section, and those outside it.
LEMMA Labels ==
  /\ "read" \in Steps /\ "exists" \in Steps /\ "connect" \in Steps /\ "unbind"
      \in Steps
  /\ "list" \in Steps /\ "pick" \in Steps /\ "dups" \in Steps /\ "adopt" \in
      Steps
  /\ "create" \in Steps /\ "recheck" \in Steps /\ "bind" \in Steps /\ "winner"
      \in Steps
  /\ "retire" \in Steps /\ "follow" \in Steps /\ "join" \in Steps /\ "cleanup"
      \in Steps
  /\ "destroy" \in Steps /\ "forget" \in Steps /\ "confirm" \in Steps /\
      "unlock" \in Steps
  /\ "idle" \notin Steps /\ "drop" \notin Steps /\ "ended" \notin Steps /\
      "dead" \notin Steps
BY DEF Steps

\* No sandbox is None.
LEMMA NoneIsNoBox == None \notin Boxes /\ None \notin Nat
BY CallsAssumption, BoundsAssumption DEF Boxes

\* A call resolves or deletes.
LEMMA CallKinds == Calls = Resolves \cup Deletes /\ Resolves \cap Deletes = {}
BY CallsAssumption DEF Calls

\* Every step keeps the types.
LEMMA TypeStep ==
  ASSUME TypeOK, Next
  PROVE  TypeOK'
<1>1. ASSUME NEW c \in Calls, Lock(c) PROVE TypeOK'
  BY <1>1, Labels, NextBox, MadeAreBoxes, NoneIsNoCall, BoundsAssumption DEF
      TypeOK, Results, Lock, Joins, Goto, stores, ghosts, InSection, Active
<1>2. ASSUME NEW c \in Calls, Read(c) PROVE TypeOK'
  BY <1>2, Labels, NextBox, MadeAreBoxes, NoneIsNoCall, BoundsAssumption DEF
      TypeOK, Results, Read, See, Leave, Goto, stores, ghosts, InSection,
      Active
<1>3. ASSUME NEW c \in Calls, Exists(c) PROVE TypeOK'
  BY <1>3, Labels, NextBox, MadeAreBoxes, NoneIsNoCall, BoundsAssumption DEF
      TypeOK, Results, Exists, Replace, Goto, Leave, stores, ghosts,
      InSection, Active
<1>4. ASSUME NEW c \in Calls, Connect(c) PROVE TypeOK'
  BY <1>4, Labels, NextBox, MadeAreBoxes, NoneIsNoCall, BoundsAssumption DEF
      TypeOK, Results, Connect, Take, See, Leave, Goto, stores, ghosts,
      InSection, Active
<1>5. ASSUME NEW c \in Calls, Unbind(c) PROVE TypeOK'
  BY <1>5, Labels, NextBox, MadeAreBoxes, NoneIsNoCall, BoundsAssumption DEF
      TypeOK, Results, Unbind, Replace, Goto, Leave, DeleteIfMatch, stores,
      ghosts, InSection, Active
<1>6. ASSUME NEW c \in Calls, List(c) PROVE TypeOK'
  BY <1>6, Labels, NextBox, MadeAreBoxes, NoneIsNoCall, BoundsAssumption DEF
      TypeOK, Results, List, Goto, stores, ghosts, InSection, Active
<1>7. ASSUME NEW c \in Calls, Pick(c) PROVE TypeOK'
  BY <1>7, Labels, NextBox, MadeAreBoxes, NoneIsNoCall, BoundsAssumption DEF
      TypeOK, Results, Pick, Take, See, Goto, stores, ghosts, InSection,
      Active
<1>8. ASSUME NEW c \in Calls, DeleteDuplicate(c) PROVE TypeOK'
  <2>1. PICK b : /\ live' = live \ {b} /\ UNCHANGED <<binding, made>>
                 /\ listed' = [listed EXCEPT ![c] = @ \ {b}]
    BY <1>8 DEF DeleteDuplicate, DeleteBox
  <2>2. listed' \in [Calls -> SUBSET Boxes]
    BY <2>1 DEF TypeOK
  <2>3. live' \subseteq 1 .. made'
    BY <2>1 DEF TypeOK
  <2>4. UNCHANGED <<row, listable, lock, pc, seen, hand, res, ghosts>>
    BY <1>8 DEF DeleteDuplicate
  <2>5. \A d \in Calls : lock' = d => InSection(d)' \/ pc'[d] = "dead"
    BY <2>4 DEF TypeOK, InSection
  <2> QED
    BY <2>1, <2>2, <2>3, <2>4, <2>5 DEF TypeOK, ghosts
<1>9. ASSUME NEW c \in Calls, Cleaned(c) PROVE TypeOK'
  BY <1>9, Labels, NextBox, MadeAreBoxes, NoneIsNoCall, BoundsAssumption DEF
      TypeOK, Results, Cleaned, Goto, Duplicates, stores, ghosts, InSection,
      Active
<1>10. ASSUME NEW c \in Calls, Adopt(c) PROVE TypeOK'
  BY <1>10, Labels, NextBox, MadeAreBoxes, NoneIsNoCall, BoundsAssumption DEF
      TypeOK, Results, Adopt, Leave, Goto, SetNX, stores, ghosts, InSection,
      Active
<1>11. ASSUME NEW c \in Calls, Create(c) PROVE TypeOK'
  BY <1>11, Labels, NextBox, MadeAreBoxes, NoneIsNoCall, BoundsAssumption DEF
      TypeOK, Results, Create, Take, See, Goto, CreateBox, stores, ghosts,
      InSection, Active
<1>12. ASSUME NEW c \in Calls, Recheck(c) PROVE TypeOK'
  BY <1>12, Labels, NextBox, MadeAreBoxes, NoneIsNoCall, BoundsAssumption DEF
      TypeOK, Results, Recheck, Goto, stores, ghosts, InSection, Active
<1>13. ASSUME NEW c \in Calls, Bind(c) PROVE TypeOK'
  BY <1>13, Labels, NextBox, MadeAreBoxes, NoneIsNoCall, BoundsAssumption DEF
      TypeOK, Results, Bind, Leave, Goto, SetNX, stores, ghosts, InSection,
      Active
<1>14. ASSUME NEW c \in Calls, Winner(c) PROVE TypeOK'
  BY <1>14, Labels, NextBox, MadeAreBoxes, NoneIsNoCall, BoundsAssumption DEF
      TypeOK, Results, Winner, See, Leave, Goto, stores, ghosts, InSection,
      Active
<1>15. ASSUME NEW c \in Calls, Retire(c) PROVE TypeOK'
  <2> USE <1>15 DEF TypeOK, Retire, Leave, Goto
  <2>1. live' \subseteq 1 .. made'
    BY DEF DeleteBox
  <2>2. pc' \in [Calls -> Steps \cup {"idle", "drop", "ended", "dead"}]
    BY Labels
  <2>3. \A x \in Calls : lock' = x => InSection(x)' \/ pc'[x] = "dead"
    BY Labels DEF InSection
  <2>4. res' \in [Calls -> Results]
    BY DEF Results
  <2>. QED  BY <2>1, <2>2, <2>3, <2>4 DEF DeleteBox, ghosts
<1>16. ASSUME NEW c \in Calls, Follow(c) PROVE TypeOK'
  BY <1>16, Labels, NextBox, MadeAreBoxes, NoneIsNoCall, BoundsAssumption DEF
      TypeOK, Results, Follow, See, Leave, Goto, stores, ghosts, InSection,
      Active
<1>17. ASSUME NEW c \in Calls, Join(c) PROVE TypeOK'
  BY <1>17, Labels, NextBox, MadeAreBoxes, NoneIsNoCall, BoundsAssumption DEF
      TypeOK, Results, Join, Take, See, Leave, Goto, stores, ghosts,
      InSection, Active
<1>18. ASSUME NEW c \in Calls, Cleanup(c) PROVE TypeOK'
  BY <1>18, Labels, NextBox, MadeAreBoxes, NoneIsNoCall, BoundsAssumption DEF
      TypeOK, Results, Cleanup, Goto, DeleteBox, stores, ghosts, InSection,
      Active
<1>19. ASSUME NEW c \in Calls, Destroy(c) PROVE TypeOK'
  BY <1>19, Labels, NextBox, MadeAreBoxes, NoneIsNoCall, BoundsAssumption DEF
      TypeOK, Results, Destroy, Goto, DeleteBox, stores, ghosts, InSection,
      Active
<1>20. ASSUME NEW c \in Calls, Forget(c) PROVE TypeOK'
  BY <1>20, Labels, NextBox, MadeAreBoxes, NoneIsNoCall, BoundsAssumption DEF
      TypeOK, Results, Forget, DestroyResult, Leave, Goto, DeleteIfMatch,
      stores, ghosts, InSection, Active
<1>21. ASSUME NEW c \in Calls, Confirm(c) PROVE TypeOK'
  BY <1>21, Labels, NextBox, MadeAreBoxes, NoneIsNoCall, BoundsAssumption DEF
      TypeOK, Results, Confirm, DestroyResult, Leave, Goto, stores, ghosts,
      InSection, Active
<1>22. ASSUME NEW c \in Calls, Unlock(c) PROVE TypeOK'
  <2> USE <1>22 DEF TypeOK, Unlock, Goto, stores, ghosts
  <2>1. pc' \in [Calls -> Steps \cup {"idle", "drop", "ended", "dead"}]
    BY Labels
  <2>2. res' \in [Calls -> Results]
    BY DEF Results
  <2>3. lock' \in Calls \cup {None} /\ lock' # c
    BY NoneIsNoCall
  <2>4. \A x \in Calls : lock' = x => InSection(x)' \/ pc'[x] = "dead"
    BY <2>3, NoneIsNoCall DEF InSection
  <2>. QED  BY <2>1, <2>2, <2>3, <2>4
<1>23. ASSUME NEW c \in Calls, DropRow(c) PROVE TypeOK'
  BY <1>23, Labels, NextBox, MadeAreBoxes, NoneIsNoCall, BoundsAssumption DEF
      TypeOK, Results, DropRow, Goto, stores, ghosts, InSection, Active
<1>24. ASSUME NEW c \in Calls, RequestFails(c) PROVE TypeOK'
  <2> USE <1>24 DEF TypeOK, RequestFails, Failed, Goto
  <2>1. pc' \in [Calls -> Steps \cup {"idle", "drop", "ended", "dead"}]
    BY Labels
  <2>2. res' \in [Calls -> Results]
    BY DEF Results
  <2>3. faults' \in 0 .. MaxFaults
    BY BoundsAssumption DEF Fault
  <2>4. \A x \in Calls : lock' = x => InSection(x)' \/ pc'[x] = "dead"
    BY Labels DEF InSection
  <2>5. /\ binding' \in Boxes \cup {None} /\ made' \in 0 .. MaxBoxes
        /\ live' \subseteq 1 .. made'
    BY NextBox DEF stores
  <2>. QED  BY <2>1, <2>2, <2>3, <2>4, <2>5 DEF Fault
<1>25. ASSUME NEW c \in Calls, AnswerLost(c) PROVE TypeOK'
  <2> USE <1>25 DEF TypeOK, AnswerLost, Failed, Goto
  <2>1. pc' \in [Calls -> Steps \cup {"idle", "drop", "ended", "dead"}]
    BY Labels
  <2>2. res' \in [Calls -> Results]
    BY DEF Results
  <2>3. faults' \in 0 .. MaxFaults
    BY BoundsAssumption DEF Fault
  <2>4. \A x \in Calls : lock' = x => InSection(x)' \/ pc'[x] = "dead"
    BY Labels DEF InSection, Effect
  <2>5. /\ binding' \in Boxes \cup {None} /\ made' \in 0 .. MaxBoxes
        /\ live' \subseteq 1 .. made'
    <3>1. CASE CreateBox
      <4>1. 1 .. made \subseteq 1 .. (made + 1)
        OBVIOUS
      <4>. QED  BY <3>1, <4>1, NextBox DEF CreateBox
    <3>2. CASE \E b \in Boxes \cup {None} : SetNX(b) \/ DeleteIfMatch(b)
      BY <3>2 DEF SetNX, DeleteIfMatch
    <3>3. CASE \E b \in Boxes \cup {None} : DeleteBox(b)
      BY <3>3 DEF DeleteBox
    <3>. QED  BY <3>1, <3>2, <3>3 DEF Effect, Duplicates
  <2>. QED  BY <2>1, <2>2, <2>3, <2>4, <2>5 DEF Fault
<1>26. ASSUME NEW c \in Calls, DropFails(c) PROVE TypeOK'
  BY <1>26, Labels, NextBox, MadeAreBoxes, NoneIsNoCall, BoundsAssumption DEF
      TypeOK, Results, DropFails, Fault, Goto, stores, ghosts, InSection,
      Active
<1>27. ASSUME NEW c \in Calls, Crash(c) PROVE TypeOK'
  BY <1>27, Labels, NextBox, MadeAreBoxes, NoneIsNoCall, BoundsAssumption DEF
      TypeOK, Results, Crash, Fault, Goto, stores, ghosts, InSection, Active
<1>28. ASSUME NEW c \in Calls, LeaseExpires(c) PROVE TypeOK'
  BY <1>28, Labels, NextBox, MadeAreBoxes, NoneIsNoCall, BoundsAssumption DEF
      TypeOK, Results, LeaseExpires, stores, ghosts, InSection, Active
<1>29. ASSUME NEW c \in Calls, LockLost(c) PROVE TypeOK'
  BY <1>29, Labels, NextBox, MadeAreBoxes, NoneIsNoCall, BoundsAssumption DEF
      TypeOK, Results, LockLost, Fault, stores, ghosts, InSection, Active
<1>30. ASSUME NEW c \in Calls, LossNoticed(c) PROVE TypeOK'
  BY <1>30, Labels, NextBox, MadeAreBoxes, NoneIsNoCall, BoundsAssumption DEF
      TypeOK, Results, LossNoticed, Leave, Goto, stores, ghosts, InSection,
      Active
<1>31. ASSUME NEW b \in Boxes, BoxDies(b) PROVE TypeOK'
  BY <1>31, Labels, NextBox, MadeAreBoxes, NoneIsNoCall, BoundsAssumption DEF
      TypeOK, Results, BoxDies, DeleteBox, stores, ghosts, InSection, Active
<1>. QED
  BY <1>1, <1>2, <1>3, <1>4, <1>5, <1>6, <1>7, <1>8, <1>9, <1>10, <1>11,
      <1>12, <1>13, <1>14, <1>15, <1>16, <1>17, <1>18, <1>19, <1>20, <1>21,
      <1>22, <1>23, <1>24, <1>25, <1>26, <1>27, <1>28, <1>29, <1>30, <1>31 DEF
      Next, Step

-----------------------------------------------------------------------------
(* Bound sandboxes stay bound                                               *)

\* A call knows only sandboxes that were made.
LEMMA KnownStep ==
  ASSUME TypeOK, Known, Next
  PROVE  Known'
<1>1. ASSUME NEW c \in Calls, Lock(c) PROVE Known'
  BY <1>1, NoneIsNoBox DEF TypeOK, Known, Lock, Joins, Goto, stores, ghosts,
      InSection, Active
<1>2. ASSUME NEW c \in Calls, Read(c) PROVE Known'
  BY <1>2, NoneIsNoBox DEF TypeOK, Known, Read, See, Leave, Goto, stores,
      ghosts, InSection, Active
<1>3. ASSUME NEW c \in Calls, Exists(c) PROVE Known'
  BY <1>3, NoneIsNoBox DEF TypeOK, Known, Exists, Replace, Goto, Leave,
      stores, ghosts, InSection, Active
<1>4. ASSUME NEW c \in Calls, Connect(c) PROVE Known'
  BY <1>4, NoneIsNoBox DEF TypeOK, Known, Connect, Take, See, Leave, Goto,
      stores, ghosts, InSection, Active
<1>5. ASSUME NEW c \in Calls, Unbind(c) PROVE Known'
  BY <1>5, NoneIsNoBox DEF TypeOK, Known, Unbind, Replace, Goto, Leave,
      DeleteIfMatch, stores, ghosts, InSection, Active
<1>6. ASSUME NEW c \in Calls, List(c) PROVE Known'
  BY <1>6, NoneIsNoBox DEF TypeOK, Known, List, Goto, stores, ghosts,
      InSection, Active
<1>7. ASSUME NEW c \in Calls, Pick(c) PROVE Known'
  BY <1>7, NoneIsNoBox DEF TypeOK, Known, Pick, Take, See, Goto, stores,
      ghosts, InSection, Active
<1>8. ASSUME NEW c \in Calls, DeleteDuplicate(c) PROVE Known'
  BY <1>8, NoneIsNoBox DEF TypeOK, Known, DeleteDuplicate, Duplicates,
      DeleteBox, stores, ghosts, InSection, Active
<1>9. ASSUME NEW c \in Calls, Cleaned(c) PROVE Known'
  BY <1>9, NoneIsNoBox DEF TypeOK, Known, Cleaned, Goto, Duplicates, stores,
      ghosts, InSection, Active
<1>10. ASSUME NEW c \in Calls, Adopt(c) PROVE Known'
  BY <1>10, NoneIsNoBox DEF TypeOK, Known, Adopt, Leave, Goto, SetNX, stores,
      ghosts, InSection, Active
<1>11. ASSUME NEW c \in Calls, Create(c) PROVE Known'
  <2>1. made' = made + 1 /\ made \in Nat /\ binding' = binding /\ seen' = seen
      /\ listed' = listed
    BY <1>11 DEF Create, CreateBox, TypeOK
  <2>2. \A x \in Calls : hand'[x] = IF x = c THEN made + 1 ELSE hand[x]
    BY <1>11 DEF Create, Take, TypeOK
  <2>3. 1 .. made \subseteq 1 .. made'
    BY <2>1
  <2>4. \A x \in Calls : /\ seen[x] \in Int \/ seen[x] = None
                         /\ hand[x] \in Int \/ hand[x] = None
    BY DEF TypeOK, Boxes
  <2>5. binding \in Int \/ binding = None
    BY DEF TypeOK, Boxes
  <2>. QED  BY <2>1, <2>2, <2>3, <2>4, <2>5 DEF Known
<1>12. ASSUME NEW c \in Calls, Recheck(c) PROVE Known'
  BY <1>12, NoneIsNoBox DEF TypeOK, Known, Recheck, Goto, stores, ghosts,
      InSection, Active
<1>13. ASSUME NEW c \in Calls, Bind(c) PROVE Known'
  BY <1>13, NoneIsNoBox DEF TypeOK, Known, Bind, Leave, Goto, SetNX, stores,
      ghosts, InSection, Active
<1>14. ASSUME NEW c \in Calls, Winner(c) PROVE Known'
  BY <1>14, NoneIsNoBox DEF TypeOK, Known, Winner, See, Leave, Goto, stores,
      ghosts, InSection, Active
<1>15. ASSUME NEW c \in Calls, Retire(c) PROVE Known'
  BY <1>15, NoneIsNoBox DEF TypeOK, Known, Retire, Leave, Goto, DeleteBox,
      stores, ghosts, InSection, Active
<1>16. ASSUME NEW c \in Calls, Follow(c) PROVE Known'
  BY <1>16, NoneIsNoBox DEF TypeOK, Known, Follow, See, Leave, Goto, stores,
      ghosts, InSection, Active
<1>17. ASSUME NEW c \in Calls, Join(c) PROVE Known'
  BY <1>17, NoneIsNoBox DEF TypeOK, Known, Join, Take, See, Leave, Goto,
      stores, ghosts, InSection, Active
<1>18. ASSUME NEW c \in Calls, Cleanup(c) PROVE Known'
  BY <1>18, NoneIsNoBox DEF TypeOK, Known, Cleanup, Goto, DeleteBox, stores,
      ghosts, InSection, Active
<1>19. ASSUME NEW c \in Calls, Destroy(c) PROVE Known'
  BY <1>19, NoneIsNoBox DEF TypeOK, Known, Destroy, Goto, DeleteBox, stores,
      ghosts, InSection, Active
<1>20. ASSUME NEW c \in Calls, Forget(c) PROVE Known'
  BY <1>20, NoneIsNoBox DEF TypeOK, Known, Forget, DestroyResult, Leave, Goto,
      DeleteIfMatch, stores, ghosts, InSection, Active
<1>21. ASSUME NEW c \in Calls, Confirm(c) PROVE Known'
  BY <1>21, NoneIsNoBox DEF TypeOK, Known, Confirm, DestroyResult, Leave,
      Goto, stores, ghosts, InSection, Active
<1>22. ASSUME NEW c \in Calls, Unlock(c) PROVE Known'
  BY <1>22, NoneIsNoBox DEF TypeOK, Known, Unlock, Goto, stores, ghosts,
      InSection, Active
<1>23. ASSUME NEW c \in Calls, DropRow(c) PROVE Known'
  BY <1>23, NoneIsNoBox DEF TypeOK, Known, DropRow, Goto, stores, ghosts,
      InSection, Active
<1>24. ASSUME NEW c \in Calls, RequestFails(c) PROVE Known'
  BY <1>24, NoneIsNoBox DEF TypeOK, Known, RequestFails, Failed, Goto, Fault,
      stores, ghosts, InSection, Active
<1>25. ASSUME NEW c \in Calls, AnswerLost(c) PROVE Known'
  <2>1. /\ made' \in {made, made + 1} /\ made \in Nat
        /\ seen' = seen /\ hand' = hand /\ listed' = listed
    BY <1>25 DEF AnswerLost, Effect, SetNX, DeleteIfMatch, DeleteBox,
        CreateBox, TypeOK
  <2>2. binding' \in {binding, None, hand[c]}
    BY <1>25 DEF AnswerLost, Effect, SetNX, DeleteIfMatch, DeleteBox,
        CreateBox
  <2>3. 1 .. made \subseteq 1 .. made'
    BY <2>1
  <2>4. \A x \in Calls : /\ seen[x] \in Int \/ seen[x] = None
                         /\ hand[x] \in Int \/ hand[x] = None
    BY DEF TypeOK, Boxes
  <2>5. binding \in Int \/ binding = None
    BY DEF TypeOK, Boxes
  <2>. QED  BY <2>1, <2>2, <2>3, <2>4, <2>5 DEF Known
<1>26. ASSUME NEW c \in Calls, DropFails(c) PROVE Known'
  BY <1>26, NoneIsNoBox DEF TypeOK, Known, DropFails, Fault, Goto, stores,
      ghosts, InSection, Active
<1>27. ASSUME NEW c \in Calls, Crash(c) PROVE Known'
  BY <1>27, NoneIsNoBox DEF TypeOK, Known, Crash, Fault, Goto, stores, ghosts,
      InSection, Active
<1>28. ASSUME NEW c \in Calls, LeaseExpires(c) PROVE Known'
  BY <1>28, NoneIsNoBox DEF TypeOK, Known, LeaseExpires, stores, ghosts,
      InSection, Active
<1>29. ASSUME NEW c \in Calls, LockLost(c) PROVE Known'
  BY <1>29, NoneIsNoBox DEF TypeOK, Known, LockLost, Fault, stores, ghosts,
      InSection, Active
<1>30. ASSUME NEW c \in Calls, LossNoticed(c) PROVE Known'
  BY <1>30, NoneIsNoBox DEF TypeOK, Known, LossNoticed, Leave, Goto, stores,
      ghosts, InSection, Active
<1>31. ASSUME NEW b \in Boxes, BoxDies(b) PROVE Known'
  BY <1>31, NoneIsNoBox DEF TypeOK, Known, BoxDies, DeleteBox, stores, ghosts,
      InSection, Active
<1>. QED
  BY <1>1, <1>2, <1>3, <1>4, <1>5, <1>6, <1>7, <1>8, <1>9, <1>10, <1>11,
      <1>12, <1>13, <1>14, <1>15, <1>16, <1>17, <1>18, <1>19, <1>20, <1>21,
      <1>22, <1>23, <1>24, <1>25, <1>26, <1>27, <1>28, <1>29, <1>30, <1>31 DEF
      Next, Step

\* A live sandbox that was read or handed out stays bound: its binding is
\* only deleted by a call that knows it to be gone.
LEMMA BoundStep ==
  ASSUME TypeOK, Known, Bound, Next
  PROVE  Bound'
<1>1. ASSUME NEW c \in Calls, Lock(c) PROVE Bound'
  BY <1>1, NoneIsNoBox, CallKinds DEF TypeOK, Known, Bound, Lock, Joins, Goto,
      stores, ghosts, InSection, Active
<1>2. ASSUME NEW c \in Calls, Read(c) PROVE Bound'
  BY <1>2, NoneIsNoBox, CallKinds DEF TypeOK, Known, Bound, Read, See, Leave,
      Goto, stores, ghosts, InSection, Active
<1>3. ASSUME NEW c \in Calls, Exists(c) PROVE Bound'
  BY <1>3, NoneIsNoBox, CallKinds DEF TypeOK, Known, Bound, Exists, Replace,
      Goto, Leave, stores, ghosts, InSection, Active
<1>4. ASSUME NEW c \in Calls, Connect(c) PROVE Bound'
  BY <1>4, NoneIsNoBox, CallKinds DEF TypeOK, Known, Bound, Connect, Take,
      See, Leave, Goto, stores, ghosts, InSection, Active
<1>5. ASSUME NEW c \in Calls, Unbind(c) PROVE Bound'
  BY <1>5, NoneIsNoBox, CallKinds DEF TypeOK, Known, Bound, Unbind, Replace,
      Goto, Leave, DeleteIfMatch, stores, ghosts, InSection, Active
<1>6. ASSUME NEW c \in Calls, List(c) PROVE Bound'
  BY <1>6, NoneIsNoBox, CallKinds DEF TypeOK, Known, Bound, List, Goto,
      stores, ghosts, InSection, Active
<1>7. ASSUME NEW c \in Calls, Pick(c) PROVE Bound'
  BY <1>7, NoneIsNoBox, CallKinds DEF TypeOK, Known, Bound, Pick, Take, See,
      Goto, stores, ghosts, InSection, Active
<1>8. ASSUME NEW c \in Calls, DeleteDuplicate(c) PROVE Bound'
  BY <1>8, NoneIsNoBox, CallKinds DEF TypeOK, Known, Bound, DeleteDuplicate,
      Duplicates, DeleteBox, stores, ghosts, InSection, Active
<1>9. ASSUME NEW c \in Calls, Cleaned(c) PROVE Bound'
  BY <1>9, NoneIsNoBox, CallKinds DEF TypeOK, Known, Bound, Cleaned, Goto,
      Duplicates, stores, ghosts, InSection, Active
<1>10. ASSUME NEW c \in Calls, Adopt(c) PROVE Bound'
  <2>1. live' = live /\ seen' = seen /\ hand' = hand
    BY <1>10 DEF Adopt, SetNX
  <2>2. binding' = IF binding = None THEN hand[c] ELSE binding
    BY <1>10 DEF Adopt, SetNX
  <2>3. \A b \in live : binding = b => binding' = b
    BY <2>2, NoneIsNoBox DEF TypeOK
  <2>4. /\ \A x \in Calls : x # c => pc'[x] = pc[x] /\ res'[x] = res[x]
        /\ pc'[c] \in {"unlock", "winner", "follow"}
        /\ res'[c] = "ok" => \/ pc'[c] = "unlock" /\ binding' = hand[c]
                             \/ res[c] = "ok"
    BY <1>10, <2>2 DEF Adopt, Leave, Goto, TypeOK
  <2>5. c \in Resolves => res[c] # "ok"
    BY <1>10 DEF Adopt, Bound
  <2>. QED  BY <2>1, <2>3, <2>4, <2>5, CallKinds DEF Bound
<1>11. ASSUME NEW c \in Calls, Create(c) PROVE Bound'
  BY <1>11, NoneIsNoBox, CallKinds DEF TypeOK, Known, Bound, Create, Take,
      See, Goto, CreateBox, stores, ghosts, InSection, Active
<1>12. ASSUME NEW c \in Calls, Recheck(c) PROVE Bound'
  BY <1>12, NoneIsNoBox, CallKinds DEF TypeOK, Known, Bound, Recheck, Goto,
      stores, ghosts, InSection, Active
<1>13. ASSUME NEW c \in Calls, Bind(c) PROVE Bound'
  <2>1. live' = live /\ seen' = seen /\ hand' = hand
    BY <1>13 DEF Bind, SetNX
  <2>2. binding' = IF binding = None THEN hand[c] ELSE binding
    BY <1>13 DEF Bind, SetNX
  <2>3. \A b \in live : binding = b => binding' = b
    BY <2>2, NoneIsNoBox DEF TypeOK
  <2>4. /\ \A x \in Calls : x # c => pc'[x] = pc[x] /\ res'[x] = res[x]
        /\ pc'[c] \in {"unlock", "winner", "follow"}
        /\ res'[c] = "ok" => \/ pc'[c] = "unlock" /\ binding' = hand[c]
                             \/ res[c] = "ok"
    BY <1>13, <2>2 DEF Bind, Leave, Goto, TypeOK
  <2>5. c \in Resolves => res[c] # "ok"
    BY <1>13 DEF Bind, Bound
  <2>. QED  BY <2>1, <2>3, <2>4, <2>5, CallKinds DEF Bound
<1>14. ASSUME NEW c \in Calls, Winner(c) PROVE Bound'
  BY <1>14, NoneIsNoBox, CallKinds DEF TypeOK, Known, Bound, Winner, See,
      Leave, Goto, stores, ghosts, InSection, Active
<1>15. ASSUME NEW c \in Calls, Retire(c) PROVE Bound'
  BY <1>15, NoneIsNoBox, CallKinds DEF TypeOK, Known, Bound, Retire, Leave,
      Goto, DeleteBox, stores, ghosts, InSection, Active
<1>16. ASSUME NEW c \in Calls, Follow(c) PROVE Bound'
  BY <1>16, NoneIsNoBox, CallKinds DEF TypeOK, Known, Bound, Follow, See,
      Leave, Goto, stores, ghosts, InSection, Active
<1>17. ASSUME NEW c \in Calls, Join(c) PROVE Bound'
  BY <1>17, NoneIsNoBox, CallKinds DEF TypeOK, Known, Bound, Join, Take, See,
      Leave, Goto, stores, ghosts, InSection, Active
<1>18. ASSUME NEW c \in Calls, Cleanup(c) PROVE Bound'
  BY <1>18, NoneIsNoBox, CallKinds DEF TypeOK, Known, Bound, Cleanup, Goto,
      DeleteBox, stores, ghosts, InSection, Active
<1>19. ASSUME NEW c \in Calls, Destroy(c) PROVE Bound'
  BY <1>19, NoneIsNoBox, CallKinds DEF TypeOK, Known, Bound, Destroy, Goto,
      DeleteBox, stores, ghosts, InSection, Active
<1>20. ASSUME NEW c \in Calls, Forget(c) PROVE Bound'
  BY <1>20, NoneIsNoBox, CallKinds DEF TypeOK, Known, Bound, Forget,
      DestroyResult, Leave, Goto, DeleteIfMatch, stores, ghosts, InSection,
      Active
<1>21. ASSUME NEW c \in Calls, Confirm(c) PROVE Bound'
  BY <1>21, NoneIsNoBox, CallKinds DEF TypeOK, Known, Bound, Confirm,
      DestroyResult, Leave, Goto, stores, ghosts, InSection, Active
<1>22. ASSUME NEW c \in Calls, Unlock(c) PROVE Bound'
  BY <1>22, NoneIsNoBox, CallKinds DEF TypeOK, Known, Bound, Unlock, Goto,
      stores, ghosts, InSection, Active
<1>23. ASSUME NEW c \in Calls, DropRow(c) PROVE Bound'
  BY <1>23, NoneIsNoBox, CallKinds DEF TypeOK, Known, Bound, DropRow, Goto,
      stores, ghosts, InSection, Active
<1>24. ASSUME NEW c \in Calls, RequestFails(c) PROVE Bound'
  BY <1>24, NoneIsNoBox, CallKinds DEF TypeOK, Known, Bound, RequestFails,
      Failed, Goto, Fault, stores, ghosts, InSection, Active
<1>25. ASSUME NEW c \in Calls, AnswerLost(c) PROVE Bound'
  <2>1. /\ seen' = seen /\ hand' = hand
        /\ live' \subseteq live \cup {made + 1}
    BY <1>25 DEF AnswerLost, Effect, SetNX, DeleteIfMatch, DeleteBox,
        CreateBox
  <2>2. \A b \in live : binding = b => binding' = b
    BY <1>25, NoneIsNoBox DEF AnswerLost, Effect, SetNX, DeleteIfMatch,
        DeleteBox, CreateBox,
       TypeOK, Bound
  <2>3. /\ \A x \in Calls : x # c => pc'[x] = pc[x] /\ res'[x] = res[x]
        /\ pc'[c] \in {"unlock", "cleanup"} /\ res'[c] \in {"failed",
            "deleted"}
    BY <1>25 DEF AnswerLost, Failed, Goto, TypeOK
  <2>4. \A x \in Calls : seen[x] # made + 1 /\ hand[x] # made + 1
    BY NoneIsNoBox DEF TypeOK, Known, Boxes
  <2>. QED  BY <2>1, <2>2, <2>3, <2>4, CallKinds DEF Bound
<1>26. ASSUME NEW c \in Calls, DropFails(c) PROVE Bound'
  BY <1>26, NoneIsNoBox, CallKinds DEF TypeOK, Known, Bound, DropFails, Fault,
      Goto, stores, ghosts, InSection, Active
<1>27. ASSUME NEW c \in Calls, Crash(c) PROVE Bound'
  BY <1>27, NoneIsNoBox, CallKinds DEF TypeOK, Known, Bound, Crash, Fault,
      Goto, stores, ghosts, InSection, Active
<1>28. ASSUME NEW c \in Calls, LeaseExpires(c) PROVE Bound'
  BY <1>28, NoneIsNoBox, CallKinds DEF TypeOK, Known, Bound, LeaseExpires,
      stores, ghosts, InSection, Active
<1>29. ASSUME NEW c \in Calls, LockLost(c) PROVE Bound'
  BY <1>29, NoneIsNoBox, CallKinds DEF TypeOK, Known, Bound, LockLost, Fault,
      stores, ghosts, InSection, Active
<1>30. ASSUME NEW c \in Calls, LossNoticed(c) PROVE Bound'
  BY <1>30, NoneIsNoBox, CallKinds DEF TypeOK, Known, Bound, LossNoticed,
      Leave, Goto, stores, ghosts, InSection, Active
<1>31. ASSUME NEW b \in Boxes, BoxDies(b) PROVE Bound'
  BY <1>31, NoneIsNoBox, CallKinds DEF TypeOK, Known, Bound, BoxDies,
      DeleteBox, stores, ghosts, InSection, Active
<1>. QED
  BY <1>1, <1>2, <1>3, <1>4, <1>5, <1>6, <1>7, <1>8, <1>9, <1>10, <1>11,
      <1>12, <1>13, <1>14, <1>15, <1>16, <1>17, <1>18, <1>19, <1>20, <1>21,
      <1>22, <1>23, <1>24, <1>25, <1>26, <1>27, <1>28, <1>29, <1>30, <1>31 DEF
      Next, Step

-----------------------------------------------------------------------------
(* Alone in the critical section                                            *)

\* Nobody joins a call that holds the lock.
LEMMA AloneStep ==
  ASSUME TypeOK, Known, Bound, Alone, Next
  PROVE  Alone'
<1>1. ASSUME NEW c \in Calls, Lock(c) PROVE Alone'
  BY <1>1, Labels, NoneIsNoBox, NoneIsNoCall, CallKinds DEF TypeOK, Known,
      Alone, Before, Uses, Lock, Joins, Goto, stores, ghosts, InSection,
      Active
<1>2. ASSUME NEW c \in Calls, Read(c) PROVE Alone'
  BY <1>2, Labels, NoneIsNoBox, NoneIsNoCall, CallKinds DEF TypeOK, Known,
      Alone, Before, Uses, Read, See, Leave, Goto, stores, ghosts, InSection,
      Active
<1>3. ASSUME NEW c \in Calls, Exists(c) PROVE Alone'
  BY <1>3, Labels, NoneIsNoBox, NoneIsNoCall, CallKinds DEF TypeOK, Known,
      Alone, Before, Uses, Exists, Replace, Goto, Leave, stores, ghosts,
      InSection, Active
<1>4. ASSUME NEW c \in Calls, Connect(c) PROVE Alone'
  BY <1>4, Labels, NoneIsNoBox, NoneIsNoCall, CallKinds DEF TypeOK, Known,
      Alone, Before, Uses, Connect, Take, See, Leave, Goto, stores, ghosts,
      InSection, Active
<1>5. ASSUME NEW c \in Calls, Unbind(c) PROVE Alone'
  BY <1>5, Labels, NoneIsNoBox, NoneIsNoCall, CallKinds DEF TypeOK, Known,
      Alone, Before, Uses, Unbind, Replace, Goto, Leave, DeleteIfMatch,
      stores, ghosts, InSection, Active
<1>6. ASSUME NEW c \in Calls, List(c) PROVE Alone'
  BY <1>6, Labels, NoneIsNoBox, NoneIsNoCall, CallKinds DEF TypeOK, Known,
      Alone, Before, Uses, List, Goto, stores, ghosts, InSection, Active
<1>7. ASSUME NEW c \in Calls, Pick(c) PROVE Alone'
  BY <1>7, Labels, NoneIsNoBox, NoneIsNoCall, CallKinds DEF TypeOK, Known,
      Alone, Before, Uses, Pick, Take, See, Goto, stores, ghosts, InSection,
      Active
<1>8. ASSUME NEW c \in Calls, DeleteDuplicate(c) PROVE Alone'
  BY <1>8, Labels, NoneIsNoBox, NoneIsNoCall, CallKinds DEF TypeOK, Known,
      Alone, Before, Uses, DeleteDuplicate, Duplicates, DeleteBox, stores,
      ghosts, InSection, Active
<1>9. ASSUME NEW c \in Calls, Cleaned(c) PROVE Alone'
  BY <1>9, Labels, NoneIsNoBox, NoneIsNoCall, CallKinds DEF TypeOK, Known,
      Alone, Before, Uses, Cleaned, Goto, Duplicates, stores, ghosts,
      InSection, Active
<1>10. ASSUME NEW c \in Calls, Adopt(c) PROVE Alone'
  BY <1>10, Labels, NoneIsNoBox, NoneIsNoCall, CallKinds DEF TypeOK, Known,
      Alone, Before, Uses, Adopt, Leave, Goto, SetNX, stores, ghosts,
      InSection, Active
<1>11. ASSUME NEW c \in Calls, Create(c) PROVE Alone'
  BY <1>11, Labels, NoneIsNoBox, NoneIsNoCall, CallKinds DEF TypeOK, Known,
      Alone, Before, Uses, Create, Take, See, Goto, CreateBox, stores, ghosts,
      InSection, Active
<1>12. ASSUME NEW c \in Calls, Recheck(c) PROVE Alone'
  BY <1>12, Labels, NoneIsNoBox, NoneIsNoCall, CallKinds DEF TypeOK, Known,
      Alone, Before, Uses, Recheck, Goto, stores, ghosts, InSection, Active
<1>13. ASSUME NEW c \in Calls, Bind(c) PROVE Alone'
  BY <1>13, Labels, NoneIsNoBox, NoneIsNoCall, CallKinds DEF TypeOK, Known,
      Alone, Before, Uses, Bind, Leave, Goto, SetNX, stores, ghosts,
      InSection, Active
<1>14. ASSUME NEW c \in Calls, Winner(c) PROVE Alone'
  BY <1>14, Labels, NoneIsNoBox, NoneIsNoCall, CallKinds DEF TypeOK, Known,
      Alone, Before, Uses, Winner, See, Leave, Goto, stores, ghosts,
      InSection, Active
<1>15. ASSUME NEW c \in Calls, Retire(c) PROVE Alone'
  BY <1>15, Labels, NoneIsNoBox, NoneIsNoCall, CallKinds DEF TypeOK, Known,
      Alone, Before, Uses, Retire, Leave, Goto, DeleteBox, stores, ghosts,
      InSection, Active
<1>16. ASSUME NEW c \in Calls, Follow(c) PROVE Alone'
  BY <1>16, Labels, NoneIsNoBox, NoneIsNoCall, CallKinds DEF TypeOK, Known,
      Alone, Before, Uses, Follow, See, Leave, Goto, stores, ghosts,
      InSection, Active
<1>17. ASSUME NEW c \in Calls, Join(c) PROVE Alone'
  BY <1>17, Labels, NoneIsNoBox, NoneIsNoCall, CallKinds DEF TypeOK, Known,
      Alone, Before, Uses, Join, Take, See, Leave, Goto, stores, ghosts,
      InSection, Active
<1>18. ASSUME NEW c \in Calls, Cleanup(c) PROVE Alone'
  BY <1>18, Labels, NoneIsNoBox, NoneIsNoCall, CallKinds DEF TypeOK, Known,
      Alone, Before, Uses, Cleanup, Goto, DeleteBox, stores, ghosts,
      InSection, Active
<1>19. ASSUME NEW c \in Calls, Destroy(c) PROVE Alone'
  BY <1>19, Labels, NoneIsNoBox, NoneIsNoCall, CallKinds DEF TypeOK, Known,
      Alone, Before, Uses, Destroy, Goto, DeleteBox, stores, ghosts,
      InSection, Active
<1>20. ASSUME NEW c \in Calls, Forget(c) PROVE Alone'
  BY <1>20, Labels, NoneIsNoBox, NoneIsNoCall, CallKinds DEF TypeOK, Known,
      Alone, Before, Uses, Forget, DestroyResult, Leave, Goto, DeleteIfMatch,
      stores, ghosts, InSection, Active
<1>21. ASSUME NEW c \in Calls, Confirm(c) PROVE Alone'
  BY <1>21, Labels, NoneIsNoBox, NoneIsNoCall, CallKinds DEF TypeOK, Known,
      Alone, Before, Uses, Confirm, DestroyResult, Leave, Goto, stores,
      ghosts, InSection, Active
<1>22. ASSUME NEW c \in Calls, Unlock(c) PROVE Alone'
  BY <1>22, Labels, NoneIsNoBox, NoneIsNoCall, CallKinds DEF TypeOK, Known,
      Alone, Before, Uses, Unlock, Goto, stores, ghosts, InSection, Active
<1>23. ASSUME NEW c \in Calls, DropRow(c) PROVE Alone'
  BY <1>23, Labels DEF TypeOK, Bound, Alone, Before, Uses, DropRow, Goto,
      Fault, stores, ghosts,
     InSection, Active
<1>24. ASSUME NEW c \in Calls, RequestFails(c) PROVE Alone'
  BY <1>24, Labels, NoneIsNoBox, NoneIsNoCall, CallKinds DEF TypeOK, Known,
      Alone, Before, Uses, RequestFails, Failed, Goto, Fault, stores, ghosts,
      InSection, Active
<1>25. ASSUME NEW c \in Calls, AnswerLost(c) PROVE Alone'
  BY <1>25, Labels, NoneIsNoBox, NoneIsNoCall, CallKinds DEF TypeOK, Known,
      Alone, Before, Uses, AnswerLost, Effect, Duplicates, CreateBox,
      DeleteBox, DeleteIfMatch, SetNX, Failed, Goto, Fault, stores, ghosts,
      InSection, Active
<1>26. ASSUME NEW c \in Calls, DropFails(c) PROVE Alone'
  BY <1>26, Labels DEF TypeOK, Bound, Alone, Before, Uses, DropFails, Goto,
      Fault, stores, ghosts,
     InSection, Active
<1>27. ASSUME NEW c \in Calls, Crash(c) PROVE Alone'
  BY <1>27, Labels, NoneIsNoBox, NoneIsNoCall, CallKinds DEF TypeOK, Known,
      Alone, Before, Uses, Crash, Fault, Goto, stores, ghosts, InSection,
      Active
<1>28. ASSUME NEW c \in Calls, LeaseExpires(c) PROVE Alone'
  BY <1>28, Labels, NoneIsNoBox, NoneIsNoCall, CallKinds DEF TypeOK, Known,
      Alone, Before, Uses, LeaseExpires, stores, ghosts, InSection, Active
<1>29. ASSUME NEW c \in Calls, LockLost(c) PROVE Alone'
  BY <1>29, Labels, NoneIsNoBox, NoneIsNoCall, CallKinds DEF TypeOK, Known,
      Alone, Before, Uses, LockLost, Fault, stores, ghosts, InSection, Active
<1>30. ASSUME NEW c \in Calls, LossNoticed(c) PROVE Alone'
  BY <1>30, Labels, NoneIsNoBox, NoneIsNoCall, CallKinds DEF TypeOK, Known,
      Alone, Before, Uses, LossNoticed, Leave, Goto, stores, ghosts,
      InSection, Active
<1>31. ASSUME NEW b \in Boxes, BoxDies(b) PROVE Alone'
  BY <1>31, Labels, NoneIsNoBox, NoneIsNoCall, CallKinds DEF TypeOK, Known,
      Alone, Before, Uses, BoxDies, DeleteBox, stores, ghosts, InSection,
      Active
<1>. QED
  BY <1>1, <1>2, <1>3, <1>4, <1>5, <1>6, <1>7, <1>8, <1>9, <1>10, <1>11,
      <1>12, <1>13, <1>14, <1>15, <1>16, <1>17, <1>18, <1>19, <1>20, <1>21,
      <1>22, <1>23, <1>24, <1>25, <1>26, <1>27, <1>28, <1>29, <1>30, <1>31 DEF
      Next, Step

\* What such a call listed or made stays all there is.
LEMMA AllSeenStep ==
  ASSUME TypeOK, Alone, AllSeen, Next
  PROVE  AllSeen'
<1>1. ASSUME NEW c \in Calls, Lock(c) PROVE AllSeen'
  BY <1>1, Labels, NoneIsNoBox DEF TypeOK, Alone, AllSeen, Before, Lock,
      Joins, Goto, stores, ghosts, InSection, Active
<1>2. ASSUME NEW c \in Calls, Read(c) PROVE AllSeen'
  BY <1>2, Labels, NoneIsNoBox DEF TypeOK, Alone, AllSeen, Before, Read, See,
      Leave, Goto, stores, ghosts, InSection, Active
<1>3. ASSUME NEW c \in Calls, Exists(c) PROVE AllSeen'
  BY <1>3, Labels, NoneIsNoBox DEF TypeOK, Alone, AllSeen, Before, Exists,
      Replace, Goto, Leave, stores, ghosts, InSection, Active
<1>4. ASSUME NEW c \in Calls, Connect(c) PROVE AllSeen'
  BY <1>4, Labels, NoneIsNoBox DEF TypeOK, Alone, AllSeen, Before, Connect,
      Take, See, Leave, Goto, stores, ghosts, InSection, Active
<1>5. ASSUME NEW c \in Calls, Unbind(c) PROVE AllSeen'
  BY <1>5, Labels, NoneIsNoBox DEF TypeOK, Alone, AllSeen, Before, Unbind,
      Replace, Goto, Leave, DeleteIfMatch, stores, ghosts, InSection, Active
<1>6. ASSUME NEW c \in Calls, List(c) PROVE AllSeen'
  BY <1>6, Labels, NoneIsNoBox DEF TypeOK, Alone, AllSeen, Before, List, Goto,
      stores, ghosts, InSection, Active
<1>7. ASSUME NEW c \in Calls, Pick(c) PROVE AllSeen'
  BY <1>7, Labels, NoneIsNoBox DEF TypeOK, Alone, AllSeen, Before, Pick, Take,
      See, Goto, stores, ghosts, InSection, Active
<1>8. ASSUME NEW c \in Calls, DeleteDuplicate(c) PROVE AllSeen'
  <2>1. PICK b \in Duplicates(c) :
          live' = live \ {b} /\ listed' = [listed EXCEPT ![c] = listed[c] \
              {b}]
    BY <1>8 DEF DeleteDuplicate, DeleteBox
  <2>2. pc[c] = "dups" /\ UNCHANGED <<pc, hand, shared, listable, lock>>
    BY <1>8 DEF DeleteDuplicate, ghosts
  <2>3. \A x \in Calls : x # c => listed'[x] = listed[x]
    BY <2>1 DEF TypeOK
  <2>4. listed'[c] = listed[c] \ {b}
    BY <2>1 DEF TypeOK
  <2>. QED  BY <2>1, <2>2, <2>3, <2>4 DEF AllSeen, InSection
<1>9. ASSUME NEW c \in Calls, Cleaned(c) PROVE AllSeen'
  BY <1>9, Labels, NoneIsNoBox DEF TypeOK, Alone, AllSeen, Before, Cleaned,
      Goto, Duplicates, stores, ghosts, InSection, Active
<1>10. ASSUME NEW c \in Calls, Adopt(c) PROVE AllSeen'
  BY <1>10, Labels, NoneIsNoBox DEF TypeOK, Alone, AllSeen, Before, Adopt,
      Leave, Goto, SetNX, stores, ghosts, InSection, Active
<1>11. ASSUME NEW c \in Calls, Create(c) PROVE AllSeen'
  BY <1>11, Labels, NoneIsNoBox DEF TypeOK, Alone, AllSeen, Before, Create,
      Take, See, Goto, CreateBox, stores, ghosts, InSection, Active
<1>12. ASSUME NEW c \in Calls, Recheck(c) PROVE AllSeen'
  BY <1>12, Labels, NoneIsNoBox DEF TypeOK, Alone, AllSeen, Before, Recheck,
      Goto, stores, ghosts, InSection, Active
<1>13. ASSUME NEW c \in Calls, Bind(c) PROVE AllSeen'
  BY <1>13, Labels, NoneIsNoBox DEF TypeOK, Alone, AllSeen, Before, Bind,
      Leave, Goto, SetNX, stores, ghosts, InSection, Active
<1>14. ASSUME NEW c \in Calls, Winner(c) PROVE AllSeen'
  BY <1>14, Labels, NoneIsNoBox DEF TypeOK, Alone, AllSeen, Before, Winner,
      See, Leave, Goto, stores, ghosts, InSection, Active
<1>15. ASSUME NEW c \in Calls, Retire(c) PROVE AllSeen'
  BY <1>15, Labels, NoneIsNoBox DEF TypeOK, Alone, AllSeen, Before, Retire,
      Leave, Goto, DeleteBox, stores, ghosts, InSection, Active
<1>16. ASSUME NEW c \in Calls, Follow(c) PROVE AllSeen'
  BY <1>16, Labels, NoneIsNoBox DEF TypeOK, Alone, AllSeen, Before, Follow,
      See, Leave, Goto, stores, ghosts, InSection, Active
<1>17. ASSUME NEW c \in Calls, Join(c) PROVE AllSeen'
  BY <1>17, Labels, NoneIsNoBox DEF TypeOK, Alone, AllSeen, Before, Join,
      Take, See, Leave, Goto, stores, ghosts, InSection, Active
<1>18. ASSUME NEW c \in Calls, Cleanup(c) PROVE AllSeen'
  BY <1>18, Labels, NoneIsNoBox DEF TypeOK, Alone, AllSeen, Before, Cleanup,
      Goto, DeleteBox, stores, ghosts, InSection, Active
<1>19. ASSUME NEW c \in Calls, Destroy(c) PROVE AllSeen'
  BY <1>19, Labels, NoneIsNoBox DEF TypeOK, Alone, AllSeen, Before, Destroy,
      Goto, DeleteBox, stores, ghosts, InSection, Active
<1>20. ASSUME NEW c \in Calls, Forget(c) PROVE AllSeen'
  BY <1>20, Labels, NoneIsNoBox DEF TypeOK, Alone, AllSeen, Before, Forget,
      DestroyResult, Leave, Goto, DeleteIfMatch, stores, ghosts, InSection,
      Active
<1>21. ASSUME NEW c \in Calls, Confirm(c) PROVE AllSeen'
  BY <1>21, Labels, NoneIsNoBox DEF TypeOK, Alone, AllSeen, Before, Confirm,
      DestroyResult, Leave, Goto, stores, ghosts, InSection, Active
<1>22. ASSUME NEW c \in Calls, Unlock(c) PROVE AllSeen'
  BY <1>22, Labels, NoneIsNoBox DEF TypeOK, Alone, AllSeen, Before, Unlock,
      Goto, stores, ghosts, InSection, Active
<1>23. ASSUME NEW c \in Calls, DropRow(c) PROVE AllSeen'
  BY <1>23, Labels, NoneIsNoBox DEF TypeOK, Alone, AllSeen, Before, DropRow,
      Goto, stores, ghosts, InSection, Active
<1>24. ASSUME NEW c \in Calls, RequestFails(c) PROVE AllSeen'
  BY <1>24, Labels, NoneIsNoBox DEF TypeOK, Alone, AllSeen, Before,
      RequestFails, Failed, Goto, Fault, stores, ghosts, InSection, Active
<1>25. ASSUME NEW c \in Calls, AnswerLost(c) PROVE AllSeen'
  BY <1>25, Labels, NoneIsNoBox DEF TypeOK, Alone, AllSeen, Before,
      AnswerLost, Effect, Duplicates, CreateBox, DeleteBox, DeleteIfMatch,
      SetNX, Failed, Goto, Fault, stores, ghosts, InSection, Active
<1>26. ASSUME NEW c \in Calls, DropFails(c) PROVE AllSeen'
  BY <1>26, Labels, NoneIsNoBox DEF TypeOK, Alone, AllSeen, Before, DropFails,
      Fault, Goto, stores, ghosts, InSection, Active
<1>27. ASSUME NEW c \in Calls, Crash(c) PROVE AllSeen'
  BY <1>27, Labels, NoneIsNoBox DEF TypeOK, Alone, AllSeen, Before, Crash,
      Fault, Goto, stores, ghosts, InSection, Active
<1>28. ASSUME NEW c \in Calls, LeaseExpires(c) PROVE AllSeen'
  BY <1>28, Labels, NoneIsNoBox DEF TypeOK, Alone, AllSeen, Before,
      LeaseExpires, stores, ghosts, InSection, Active
<1>29. ASSUME NEW c \in Calls, LockLost(c) PROVE AllSeen'
  BY <1>29, Labels, NoneIsNoBox DEF TypeOK, Alone, AllSeen, Before, LockLost,
      Fault, stores, ghosts, InSection, Active
<1>30. ASSUME NEW c \in Calls, LossNoticed(c) PROVE AllSeen'
  BY <1>30, Labels, NoneIsNoBox DEF TypeOK, Alone, AllSeen, Before,
      LossNoticed, Leave, Goto, stores, ghosts, InSection, Active
<1>31. ASSUME NEW b \in Boxes, BoxDies(b) PROVE AllSeen'
  BY <1>31, Labels, NoneIsNoBox DEF TypeOK, Alone, AllSeen, Before, BoxDies,
      DeleteBox, stores, ghosts, InSection, Active
<1>. QED
  BY <1>1, <1>2, <1>3, <1>4, <1>5, <1>6, <1>7, <1>8, <1>9, <1>10, <1>11,
      <1>12, <1>13, <1>14, <1>15, <1>16, <1>17, <1>18, <1>19, <1>20, <1>21,
      <1>22, <1>23, <1>24, <1>25, <1>26, <1>27, <1>28, <1>29, <1>30, <1>31 DEF
      Next, Step

\* A call that cleans up what it made deletes nothing else.
LEMMA CleanupStep ==
  ASSUME TypeOK, NEW a \in Calls, pc[a] = "cleanup", pc'[a] # pc[a] \/
      listed'[a] # listed[a], Next
  PROVE  live \ live' \subseteq {hand[a]}
<1>1. ASSUME NEW c \in Calls, Lock(c) PROVE live \ live' \subseteq {hand[a]}
  BY <1>1, NoneIsNoBox DEF TypeOK, Lock, Joins, Goto, stores, ghosts,
      InSection, Active
<1>2. ASSUME NEW c \in Calls, Read(c) PROVE live \ live' \subseteq {hand[a]}
  BY <1>2, NoneIsNoBox DEF TypeOK, Read, See, Leave, Goto, stores, ghosts,
      InSection, Active
<1>3. ASSUME NEW c \in Calls, Exists(c) PROVE live \ live' \subseteq {hand[a]}
  BY <1>3, NoneIsNoBox DEF TypeOK, Exists, Replace, Goto, Leave, stores,
      ghosts, InSection, Active
<1>4. ASSUME NEW c \in Calls, Connect(c) PROVE live \ live' \subseteq
    {hand[a]}
  BY <1>4, NoneIsNoBox DEF TypeOK, Connect, Take, See, Leave, Goto, stores,
      ghosts, InSection, Active
<1>5. ASSUME NEW c \in Calls, Unbind(c) PROVE live \ live' \subseteq {hand[a]}
  BY <1>5, NoneIsNoBox DEF TypeOK, Unbind, Replace, Goto, Leave,
      DeleteIfMatch, stores, ghosts, InSection, Active
<1>6. ASSUME NEW c \in Calls, List(c) PROVE live \ live' \subseteq {hand[a]}
  BY <1>6, NoneIsNoBox DEF TypeOK, List, Goto, stores, ghosts, InSection,
      Active
<1>7. ASSUME NEW c \in Calls, Pick(c) PROVE live \ live' \subseteq {hand[a]}
  BY <1>7, NoneIsNoBox DEF TypeOK, Pick, Take, See, Goto, stores, ghosts,
      InSection, Active
<1>8. ASSUME NEW c \in Calls, DeleteDuplicate(c) PROVE live \ live' \subseteq
    {hand[a]}
  BY <1>8, NoneIsNoBox DEF TypeOK, DeleteDuplicate, Duplicates, DeleteBox,
      stores, ghosts, InSection, Active
<1>9. ASSUME NEW c \in Calls, Cleaned(c) PROVE live \ live' \subseteq
    {hand[a]}
  BY <1>9, NoneIsNoBox DEF TypeOK, Cleaned, Goto, Duplicates, stores, ghosts,
      InSection, Active
<1>10. ASSUME NEW c \in Calls, Adopt(c) PROVE live \ live' \subseteq {hand[a]}
  BY <1>10, NoneIsNoBox DEF TypeOK, Adopt, Leave, Goto, SetNX, stores, ghosts,
      InSection, Active
<1>11. ASSUME NEW c \in Calls, Create(c) PROVE live \ live' \subseteq
    {hand[a]}
  BY <1>11, NoneIsNoBox DEF TypeOK, Create, Take, See, Goto, CreateBox,
      stores, ghosts, InSection, Active
<1>12. ASSUME NEW c \in Calls, Recheck(c) PROVE live \ live' \subseteq
    {hand[a]}
  BY <1>12, NoneIsNoBox DEF TypeOK, Recheck, Goto, stores, ghosts, InSection,
      Active
<1>13. ASSUME NEW c \in Calls, Bind(c) PROVE live \ live' \subseteq {hand[a]}
  BY <1>13, NoneIsNoBox DEF TypeOK, Bind, Leave, Goto, SetNX, stores, ghosts,
      InSection, Active
<1>14. ASSUME NEW c \in Calls, Winner(c) PROVE live \ live' \subseteq
    {hand[a]}
  BY <1>14, NoneIsNoBox DEF TypeOK, Winner, See, Leave, Goto, stores, ghosts,
      InSection, Active
<1>15. ASSUME NEW c \in Calls, Retire(c) PROVE live \ live' \subseteq
    {hand[a]}
  BY <1>15, NoneIsNoBox DEF TypeOK, Retire, Leave, Goto, DeleteBox, stores,
      ghosts, InSection, Active
<1>16. ASSUME NEW c \in Calls, Follow(c) PROVE live \ live' \subseteq
    {hand[a]}
  BY <1>16, NoneIsNoBox DEF TypeOK, Follow, See, Leave, Goto, stores, ghosts,
      InSection, Active
<1>17. ASSUME NEW c \in Calls, Join(c) PROVE live \ live' \subseteq {hand[a]}
  BY <1>17, NoneIsNoBox DEF TypeOK, Join, Take, See, Leave, Goto, stores,
      ghosts, InSection, Active
<1>18. ASSUME NEW c \in Calls, Cleanup(c) PROVE live \ live' \subseteq
    {hand[a]}
  BY <1>18, NoneIsNoBox DEF TypeOK, Cleanup, Goto, DeleteBox, stores, ghosts,
      InSection, Active
<1>19. ASSUME NEW c \in Calls, Destroy(c) PROVE live \ live' \subseteq
    {hand[a]}
  BY <1>19, NoneIsNoBox DEF TypeOK, Destroy, Goto, DeleteBox, stores, ghosts,
      InSection, Active
<1>20. ASSUME NEW c \in Calls, Forget(c) PROVE live \ live' \subseteq
    {hand[a]}
  BY <1>20, NoneIsNoBox DEF TypeOK, Forget, DestroyResult, Leave, Goto,
      DeleteIfMatch, stores, ghosts, InSection, Active
<1>21. ASSUME NEW c \in Calls, Confirm(c) PROVE live \ live' \subseteq
    {hand[a]}
  BY <1>21, NoneIsNoBox DEF TypeOK, Confirm, DestroyResult, Leave, Goto,
      stores, ghosts, InSection, Active
<1>22. ASSUME NEW c \in Calls, Unlock(c) PROVE live \ live' \subseteq
    {hand[a]}
  BY <1>22, NoneIsNoBox DEF TypeOK, Unlock, Goto, stores, ghosts, InSection,
      Active
<1>23. ASSUME NEW c \in Calls, DropRow(c) PROVE live \ live' \subseteq
    {hand[a]}
  BY <1>23, NoneIsNoBox DEF TypeOK, DropRow, Goto, stores, ghosts, InSection,
      Active
<1>24. ASSUME NEW c \in Calls, RequestFails(c) PROVE live \ live' \subseteq
    {hand[a]}
  BY <1>24, NoneIsNoBox DEF TypeOK, RequestFails, Failed, Goto, Fault, stores,
      ghosts, InSection, Active
<1>25. ASSUME NEW c \in Calls, AnswerLost(c) PROVE live \ live' \subseteq
    {hand[a]}
  BY <1>25, NoneIsNoBox DEF TypeOK, AnswerLost, Effect, Duplicates, CreateBox,
      DeleteBox, DeleteIfMatch, SetNX, Failed, Goto, Fault, stores, ghosts,
      InSection, Active
<1>26. ASSUME NEW c \in Calls, DropFails(c) PROVE live \ live' \subseteq
    {hand[a]}
  BY <1>26, NoneIsNoBox DEF TypeOK, DropFails, Fault, Goto, stores, ghosts,
      InSection, Active
<1>27. ASSUME NEW c \in Calls, Crash(c) PROVE live \ live' \subseteq {hand[a]}
  BY <1>27, NoneIsNoBox DEF TypeOK, Crash, Fault, Goto, stores, ghosts,
      InSection, Active
<1>28. ASSUME NEW c \in Calls, LeaseExpires(c) PROVE live \ live' \subseteq
    {hand[a]}
  BY <1>28, NoneIsNoBox DEF TypeOK, LeaseExpires, stores, ghosts, InSection,
      Active
<1>29. ASSUME NEW c \in Calls, LockLost(c) PROVE live \ live' \subseteq
    {hand[a]}
  BY <1>29, NoneIsNoBox DEF TypeOK, LockLost, Fault, stores, ghosts,
      InSection, Active
<1>30. ASSUME NEW c \in Calls, LossNoticed(c) PROVE live \ live' \subseteq
    {hand[a]}
  BY <1>30, NoneIsNoBox DEF TypeOK, LossNoticed, Leave, Goto, stores, ghosts,
      InSection, Active
<1>31. ASSUME NEW b \in Boxes, BoxDies(b) PROVE live \ live' \subseteq
    {hand[a]}
  BY <1>31, NoneIsNoBox DEF TypeOK, BoxDies, DeleteBox, stores, ghosts,
      InSection, Active
<1>. QED
  BY <1>1, <1>2, <1>3, <1>4, <1>5, <1>6, <1>7, <1>8, <1>9, <1>10, <1>11,
      <1>12, <1>13, <1>14, <1>15, <1>16, <1>17, <1>18, <1>19, <1>20, <1>21,
      <1>22, <1>23, <1>24, <1>25, <1>26, <1>27, <1>28, <1>29, <1>30, <1>31 DEF
      Next, Step

-----------------------------------------------------------------------------
(* Theorems                                                                 *)

\* The invariant holds at the start,
LEMMA InitInv == Init => SandboxInv
<1> SUFFICES ASSUME Init PROVE SandboxInv
  OBVIOUS
<1>1. TypeOK
  <2>1. 0 \in 0 .. MaxBoxes /\ 0 \in 0 .. MaxDeaths /\ 0 \in 0 .. MaxFaults
    BY BoundsAssumption
  <2>2. \A c \in Calls : lock # c
    BY NoneIsNoCall DEF Init
  <2>. QED  BY <2>1, <2>2 DEF Init, TypeOK, Results
<1>2. Known /\ Bound /\ Alone /\ AllSeen
  BY Labels, CallKinds DEF Init, Known, Bound, Alone, AllSeen, InSection
<1>. QED  BY <1>1, <1>2 DEF SandboxInv

\* in a step that changes nothing,
LEMMA StutterInv == SandboxInv /\ UNCHANGED vars => SandboxInv'
BY DEF SandboxInv, TypeOK, Known, Bound, Alone, AllSeen, InSection, Uses,
    vars, stores, ghosts

\* and in every other.
LEMMA StepInv == SandboxInv /\ [Next]_vars => SandboxInv'
BY StutterInv, TypeStep, KnownStep, BoundStep, AloneStep, AllSeenStep DEF
    SandboxInv

\* The inductive invariant: types, what calls know, bound sandboxes stay bound,
\* calls that are alone in their critical section.
THEOREM InvHolds == Spec => []SandboxInv
BY InitInv, StepInv, PTL DEF Spec

\* In a state of the invariant a sandbox in use is the bound one.
LEMMA InvImpliesInUse == SandboxInv => InUseIsBound
BY DEF SandboxInv, Bound, InUseIsBound, Uses

\* A sandbox a Resolve has handed out and that still runs is the bound one,
\* whatever failed, crashed or lost its lock (Resolve, session_lifecycle.go).
THEOREM UsersShareTheBoundOne == Spec => []InUseIsBound
BY InvHolds, InvImpliesInUse, PTL

\* In such a state what a call binds is all there is.
LEMMA BindsAlone ==
  ASSUME SandboxInv
  PROVE  \A c \in Calls \ shared : listable /\ Binds(c) => live \subseteq
      {hand[c]}
BY Labels, CallKinds DEF SandboxInv, Binds, AllSeen, InSection

\* With a provider that lists sandboxes, whatever a call that was alone in its
\* critical section binds is the session's only sandbox (recoverOwnedSandbox).
THEOREM BindingIsAlone == Spec => BoundIsAlone
<1>1. SandboxInv /\ [Next]_vars =>
        [\A c \in Calls \ shared : listable /\ Binds(c) => live \subseteq
            {hand[c]}]_vars
  BY BindsAlone
<1>. QED  BY <1>1, InvHolds, PTL DEF Spec, BoundIsAlone

\* In such a state a cleanup destroys nothing that is in use.
LEMMA SparesUsers ==
  ASSUME SandboxInv, Next, NEW b \in live \ live', NEW c \in Calls \ shared,
      CleansUp(c),
         NEW u \in Resolves, Uses(u, b)
  PROVE  FALSE
<1>1. InSection(c) /\ binding = b /\ b # None
  BY Labels, NoneIsNoBox, MadeAreBoxes DEF SandboxInv, TypeOK, Bound, Uses,
      CleansUp, InSection
<1>2. pc[c] # "retire" /\ pc[c] # "dups"
  BY <1>1 DEF SandboxInv, Alone, Before
<1>3. pc[c] = "cleanup" /\ (pc'[c] # pc[c] \/ listed'[c] # listed[c])
  BY <1>2 DEF CleansUp
<1>4. b = hand[c]
  BY <1>3, CleanupStep DEF SandboxInv
<1>. QED  BY <1>1, <1>3, <1>4 DEF SandboxInv, Alone

\* Cleaning up never takes a sandbox that is in use, by a call that was alone in
\* its critical section (cleanupCreated, cleanupOwnedDuplicates).
THEOREM CleanupIsSafe == Spec => CleanupSparesUsers
<1>1. SandboxInv /\ [Next]_vars =>
        [\A b \in live \ live', c \in Calls \ shared :
           CleansUp(c) => ~ \E u \in Resolves : Uses(u, b)]_vars
  BY SparesUsers
<1>. QED  BY <1>1, InvHolds, PTL DEF Spec, CleanupSparesUsers

-----------------------------------------------------------------------------
(* Without a fault                                                          *)

\* A new sandbox is in the hands of the call that made it, until it is bound.
Making == {"recheck", "bind", "cleanup"}

\* Every live sandbox is the bound one or in such hands.
Kept ==
  \A b \in live : binding = b \/ \E c \in Calls : lock = c /\ hand[c] = b /\ pc[c] \in Making

\* Without a fault only the holder of the lock is at work, what a call destroys
\* is what is bound, and no call meets another's binding or a stray sandbox.
Orderly ==
  /\ shared = {}
  /\ \A c \in Calls :
       /\ InSection(c) => lock = c
       /\ pc[c] \in {"destroy", "forget"} => binding = seen[c]
       /\ pc[c] \notin {"dead", "dups", "adopt", "confirm"}
  /\ \A r \in Resolves : pc[r] # "drop"

\* A deletion leaves the lock with nothing bound.
Deleting ==
  \A d \in Deletes :
    /\ pc[d] \in {"idle", "read", "destroy", "forget", "unlock", "drop", "ended"}
    /\ pc[d] = "unlock" => binding = None

\* From then on nothing is bound or made, unless a Resolve finds the row.
Gone ==
  ~raced /\ (~row \/ \E d \in Deletes : pc[d] = "drop") =>
    /\ binding = None /\ live = {}
    /\ \A c \in Calls : InSection(c) => pc[c] \in {"read", "exists", "unlock"}

\* What holds as long as nothing fails.
Quiet == Orderly /\ Kept /\ Deleting /\ Gone
QuietInv == faults = 0 => Quiet

\* Faults only grow.
LEMMA FaultsGrow ==
  ASSUME TypeOK, Next, faults' = 0
  PROVE  faults = 0
<1>1. faults \in Nat
  BY DEF TypeOK
<1>2. ASSUME Fault PROVE FALSE
  BY <1>1, <1>2 DEF Fault
<1>3. ASSUME ~ Fault PROVE faults' = faults
  BY <1>3 DEF Next, Step, RequestFails, AnswerLost, DropFails, Crash, LockLost, LeaseExpires,
    LossNoticed, BoxDies, ghosts, Lock, Read, Exists, Connect, Unbind, List, Pick,
    DeleteDuplicate, Cleaned, Adopt, Create, Recheck, Bind, Winner, Retire, Follow, Join,
    Cleanup, Destroy, Forget, Confirm, Unlock, DropRow
<1> QED
  BY <1>2, <1>3

\* Without a fault a call takes a step of its own.
LEMMA CalmSteps ==
  ASSUME TypeOK, Orderly, faults = 0, faults' = 0, Next
  PROVE  (\E c \in Calls : Step(c)) \/ (\E b \in Boxes : BoxDies(b))
<1>1. ~ Fault
  BY DEF Fault
<1>2. ASSUME NEW c \in Calls
      PROVE  /\ ~ RequestFails(c) /\ ~ AnswerLost(c) /\ ~ DropFails(c) /\ ~ Crash(c)
             /\ ~ LeaseExpires(c) /\ ~ LockLost(c) /\ ~ LossNoticed(c)
  BY <1>1 DEF Orderly, RequestFails, AnswerLost, DropFails, Crash, LeaseExpires, LockLost, LossNoticed
<1> QED
  BY <1>2 DEF Next

\* The order is kept,
LEMMA OrderlyStep ==
  ASSUME TypeOK, Alone, Orderly, Kept, Deleting, faults = 0, faults' = 0, Next
  PROVE  Orderly'
<1>1. ASSUME NEW c \in Calls, Lock(c) PROVE Orderly'
  BY <1>1, Labels, NoneIsNoBox, NoneIsNoCall, CallKinds DEF TypeOK, Alone, Before,
      Orderly, Kept, Making, Deleting, Lock, Joins, Goto, stores, ghosts, InSection,
      Active
<1>2. ASSUME NEW c \in Calls, Read(c) PROVE Orderly'
  BY <1>2, Labels, NoneIsNoBox, NoneIsNoCall, CallKinds DEF TypeOK, Alone, Before,
      Orderly, Kept, Making, Deleting, Read, See, Leave, Goto, stores, ghosts,
      InSection, Active
<1>3. ASSUME NEW c \in Calls, Exists(c) PROVE Orderly'
  BY <1>3, Labels, NoneIsNoBox, NoneIsNoCall, CallKinds DEF TypeOK, Alone, Before,
      Orderly, Kept, Making, Deleting, Exists, Replace, Goto, Leave, stores, ghosts,
      InSection, Active
<1>4. ASSUME NEW c \in Calls, Connect(c) PROVE Orderly'
  BY <1>4, Labels, NoneIsNoBox, NoneIsNoCall, CallKinds DEF TypeOK, Alone, Before,
      Orderly, Kept, Making, Deleting, Connect, Take, See, Leave, Goto, stores, ghosts,
      InSection, Active
<1>5. ASSUME NEW c \in Calls, Unbind(c) PROVE Orderly'
  BY <1>5, Labels, NoneIsNoBox, NoneIsNoCall, CallKinds DEF TypeOK, Alone, Before,
      Orderly, Kept, Making, Deleting, Unbind, Replace, Goto, Leave, DeleteIfMatch,
      stores, ghosts, InSection, Active
<1>6. ASSUME NEW c \in Calls, List(c) PROVE Orderly'
  BY <1>6, Labels, NoneIsNoBox, NoneIsNoCall, CallKinds DEF TypeOK, Alone, Before,
      Orderly, Kept, Making, Deleting, List, Goto, stores, ghosts, InSection, Active
<1>7. ASSUME NEW c \in Calls, Pick(c) PROVE Orderly'
  <2>1. binding = None /\ lock = c /\ pc[c] = "pick"
    BY <1>7, Labels DEF Alone, Before, Orderly, Pick, InSection
  <2>2. live = {}
    BY <2>1, Labels, NoneIsNoBox, MadeAreBoxes DEF TypeOK, Orderly, Kept, Making, InSection
  <2>3. pc' = [pc EXCEPT ![c] = "create"] /\ UNCHANGED <<shared, lock, binding, seen>>
    BY <1>7, <2>2 DEF Pick, Goto, stores, ghosts
  <2> QED
    BY <2>1, <2>3, Labels, CallKinds DEF TypeOK, Orderly, InSection
<1>8. ASSUME NEW c \in Calls, DeleteDuplicate(c) PROVE Orderly'
  BY <1>8, Labels, NoneIsNoBox, NoneIsNoCall, CallKinds DEF TypeOK, Alone, Before,
      Orderly, Kept, Making, Deleting, DeleteDuplicate, Duplicates, DeleteBox, stores,
      ghosts, InSection, Active
<1>9. ASSUME NEW c \in Calls, Cleaned(c) PROVE Orderly'
  BY <1>9, Labels, NoneIsNoBox, NoneIsNoCall, CallKinds DEF TypeOK, Alone, Before,
      Orderly, Kept, Making, Deleting, Cleaned, Goto, Duplicates, stores, ghosts,
      InSection, Active
<1>10. ASSUME NEW c \in Calls, Adopt(c) PROVE Orderly'
  BY <1>10, Labels, NoneIsNoBox, NoneIsNoCall, CallKinds DEF TypeOK, Alone, Before,
      Orderly, Kept, Making, Deleting, Adopt, Leave, Goto, SetNX, stores, ghosts,
      InSection, Active
<1>11. ASSUME NEW c \in Calls, Create(c) PROVE Orderly'
  BY <1>11, Labels, NoneIsNoBox, NoneIsNoCall, CallKinds DEF TypeOK, Alone, Before,
      Orderly, Kept, Making, Deleting, Create, Take, See, Goto, CreateBox, stores,
      ghosts, InSection, Active
<1>12. ASSUME NEW c \in Calls, Recheck(c) PROVE Orderly'
  BY <1>12, Labels, NoneIsNoBox, NoneIsNoCall, CallKinds DEF TypeOK, Alone, Before,
      Orderly, Kept, Making, Deleting, Recheck, Goto, stores, ghosts, InSection, Active
<1>13. ASSUME NEW c \in Calls, Bind(c) PROVE Orderly'
  BY <1>13, Labels, NoneIsNoBox, NoneIsNoCall, CallKinds DEF TypeOK, Alone, Before,
      Orderly, Kept, Making, Deleting, Bind, Leave, Goto, SetNX, stores, ghosts,
      InSection, Active
<1>14. ASSUME NEW c \in Calls, Winner(c) PROVE Orderly'
  BY <1>14, Labels, NoneIsNoBox, NoneIsNoCall, CallKinds DEF TypeOK, Alone, Before,
      Orderly, Kept, Making, Deleting, Winner, See, Leave, Goto, stores, ghosts,
      InSection, Active
<1>15. ASSUME NEW c \in Calls, Retire(c) PROVE Orderly'
  BY <1>15, Labels, NoneIsNoBox, NoneIsNoCall, CallKinds DEF TypeOK, Alone, Before,
      Orderly, Kept, Making, Deleting, Retire, Leave, Goto, DeleteBox, stores, ghosts,
      InSection, Active
<1>16. ASSUME NEW c \in Calls, Follow(c) PROVE Orderly'
  BY <1>16, Labels, NoneIsNoBox, NoneIsNoCall, CallKinds DEF TypeOK, Alone, Before,
      Orderly, Kept, Making, Deleting, Follow, See, Leave, Goto, stores, ghosts,
      InSection, Active
<1>17. ASSUME NEW c \in Calls, Join(c) PROVE Orderly'
  BY <1>17, Labels, NoneIsNoBox, NoneIsNoCall, CallKinds DEF TypeOK, Alone, Before,
      Orderly, Kept, Making, Deleting, Join, Take, See, Leave, Goto, stores, ghosts,
      InSection, Active
<1>18. ASSUME NEW c \in Calls, Cleanup(c) PROVE Orderly'
  BY <1>18, Labels, NoneIsNoBox, NoneIsNoCall, CallKinds DEF TypeOK, Alone, Before,
      Orderly, Kept, Making, Deleting, Cleanup, Goto, DeleteBox, stores, ghosts,
      InSection, Active
<1>19. ASSUME NEW c \in Calls, Destroy(c) PROVE Orderly'
  BY <1>19, Labels, NoneIsNoBox, NoneIsNoCall, CallKinds DEF TypeOK, Alone, Before,
      Orderly, Kept, Making, Deleting, Destroy, Goto, DeleteBox, stores, ghosts,
      InSection, Active
<1>20. ASSUME NEW c \in Calls, Forget(c) PROVE Orderly'
  BY <1>20, Labels, NoneIsNoBox, NoneIsNoCall, CallKinds DEF TypeOK, Alone, Before,
      Orderly, Kept, Making, Deleting, Forget, DestroyResult, Leave, Goto,
      DeleteIfMatch, stores, ghosts, InSection, Active
<1>21. ASSUME NEW c \in Calls, Confirm(c) PROVE Orderly'
  BY <1>21, Labels, NoneIsNoBox, NoneIsNoCall, CallKinds DEF TypeOK, Alone, Before,
      Orderly, Kept, Making, Deleting, Confirm, DestroyResult, Leave, Goto, stores,
      ghosts, InSection, Active
<1>22. ASSUME NEW c \in Calls, Unlock(c) PROVE Orderly'
  BY <1>22, Labels, NoneIsNoBox, NoneIsNoCall, CallKinds DEF TypeOK, Alone, Before,
      Orderly, Kept, Making, Deleting, Unlock, Goto, stores, ghosts, InSection, Active
<1>23. ASSUME NEW c \in Calls, DropRow(c) PROVE Orderly'
  BY <1>23, Labels, NoneIsNoBox, NoneIsNoCall, CallKinds DEF TypeOK, Alone, Before,
      Orderly, Kept, Making, Deleting, DropRow, Goto, stores, ghosts, InSection, Active
<1>24. ASSUME NEW b \in Boxes, BoxDies(b) PROVE Orderly'
  BY <1>24, Labels, NoneIsNoBox, NoneIsNoCall, CallKinds DEF TypeOK, Alone, Before,
      Orderly, Kept, Making, Deleting, BoxDies, DeleteBox, stores, ghosts, InSection,
      Active
<1> QED
  BY <1>1, <1>2, <1>3, <1>4, <1>5, <1>6, <1>7, <1>8, <1>9, <1>10, <1>11, <1>12, <1>13,
      <1>14, <1>15, <1>16, <1>17, <1>18, <1>19, <1>20, <1>21, <1>22, <1>23, <1>24,
      CalmSteps DEF Step

\* so are the sandboxes,
LEMMA KeptStep ==
  ASSUME TypeOK, Bound, Alone, Orderly, Kept, faults = 0, faults' = 0, Next
  PROVE  Kept'
<1>1. ASSUME NEW c \in Calls, Lock(c) PROVE Kept'
  BY <1>1, Labels, NoneIsNoBox, NoneIsNoCall, CallKinds DEF TypeOK, Bound, Alone,
      Before, Orderly, Kept, Making, Lock, Joins, Goto, stores, ghosts, InSection,
      Active
<1>2. ASSUME NEW c \in Calls, Read(c) PROVE Kept'
  BY <1>2, Labels, NoneIsNoBox, NoneIsNoCall, CallKinds DEF TypeOK, Bound, Alone,
      Before, Orderly, Kept, Making, Read, See, Leave, Goto, stores, ghosts, InSection,
      Active
<1>3. ASSUME NEW c \in Calls, Exists(c) PROVE Kept'
  BY <1>3, Labels, NoneIsNoBox, NoneIsNoCall, CallKinds DEF TypeOK, Bound, Alone,
      Before, Orderly, Kept, Making, Exists, Replace, Goto, Leave, stores, ghosts,
      InSection, Active
<1>4. ASSUME NEW c \in Calls, Connect(c) PROVE Kept'
  BY <1>4, Labels, NoneIsNoBox, NoneIsNoCall, CallKinds DEF TypeOK, Bound, Alone,
      Before, Orderly, Kept, Making, Connect, Take, See, Leave, Goto, stores, ghosts,
      InSection, Active
<1>5. ASSUME NEW c \in Calls, Unbind(c) PROVE Kept'
  BY <1>5, Labels, NoneIsNoBox, NoneIsNoCall, CallKinds DEF TypeOK, Bound, Alone,
      Before, Orderly, Kept, Making, Unbind, Replace, Goto, Leave, DeleteIfMatch,
      stores, ghosts, InSection, Active
<1>6. ASSUME NEW c \in Calls, List(c) PROVE Kept'
  BY <1>6, Labels, NoneIsNoBox, NoneIsNoCall, CallKinds DEF TypeOK, Bound, Alone,
      Before, Orderly, Kept, Making, List, Goto, stores, ghosts, InSection, Active
<1>7. ASSUME NEW c \in Calls, Pick(c) PROVE Kept'
  BY <1>7, Labels, NoneIsNoBox, NoneIsNoCall, CallKinds DEF TypeOK, Bound, Alone,
      Before, Orderly, Kept, Making, Pick, Take, See, Goto, stores, ghosts, InSection,
      Active
<1>8. ASSUME NEW c \in Calls, DeleteDuplicate(c) PROVE Kept'
  BY <1>8, Labels, NoneIsNoBox, NoneIsNoCall, CallKinds DEF TypeOK, Bound, Alone,
      Before, Orderly, Kept, Making, DeleteDuplicate, Duplicates, DeleteBox, stores,
      ghosts, InSection, Active
<1>9. ASSUME NEW c \in Calls, Cleaned(c) PROVE Kept'
  BY <1>9, Labels, NoneIsNoBox, NoneIsNoCall, CallKinds DEF TypeOK, Bound, Alone,
      Before, Orderly, Kept, Making, Cleaned, Goto, Duplicates, stores, ghosts,
      InSection, Active
<1>10. ASSUME NEW c \in Calls, Adopt(c) PROVE Kept'
  BY <1>10, Labels, NoneIsNoBox, NoneIsNoCall, CallKinds DEF TypeOK, Bound, Alone,
      Before, Orderly, Kept, Making, Adopt, Leave, Goto, SetNX, stores, ghosts,
      InSection, Active
<1>11. ASSUME NEW c \in Calls, Create(c) PROVE Kept'
  BY <1>11, Labels, NoneIsNoBox, NoneIsNoCall, CallKinds DEF TypeOK, Bound, Alone,
      Before, Orderly, Kept, Making, Create, Take, See, Goto, CreateBox, stores, ghosts,
      InSection, Active
<1>12. ASSUME NEW c \in Calls, Recheck(c) PROVE Kept'
  BY <1>12, Labels, NoneIsNoBox, NoneIsNoCall, CallKinds DEF TypeOK, Bound, Alone,
      Before, Orderly, Kept, Making, Recheck, Goto, stores, ghosts, InSection, Active
<1>13. ASSUME NEW c \in Calls, Bind(c) PROVE Kept'
  BY <1>13, Labels, NoneIsNoBox, NoneIsNoCall, CallKinds DEF TypeOK, Bound, Alone,
      Before, Orderly, Kept, Making, Bind, Leave, Goto, SetNX, stores, ghosts,
      InSection, Active
<1>14. ASSUME NEW c \in Calls, Winner(c) PROVE Kept'
  BY <1>14, Labels, NoneIsNoBox, NoneIsNoCall, CallKinds DEF TypeOK, Bound, Alone,
      Before, Orderly, Kept, Making, Winner, See, Leave, Goto, stores, ghosts,
      InSection, Active
<1>15. ASSUME NEW c \in Calls, Retire(c) PROVE Kept'
  BY <1>15, Labels, NoneIsNoBox, NoneIsNoCall, CallKinds DEF TypeOK, Bound, Alone,
      Before, Orderly, Kept, Making, Retire, Leave, Goto, DeleteBox, stores, ghosts,
      InSection, Active
<1>16. ASSUME NEW c \in Calls, Follow(c) PROVE Kept'
  BY <1>16, Labels, NoneIsNoBox, NoneIsNoCall, CallKinds DEF TypeOK, Bound, Alone,
      Before, Orderly, Kept, Making, Follow, See, Leave, Goto, stores, ghosts,
      InSection, Active
<1>17. ASSUME NEW c \in Calls, Join(c) PROVE Kept'
  BY <1>17, Labels, NoneIsNoBox, NoneIsNoCall, CallKinds DEF TypeOK, Bound, Alone,
      Before, Orderly, Kept, Making, Join, Take, See, Leave, Goto, stores, ghosts,
      InSection, Active
<1>18. ASSUME NEW c \in Calls, Cleanup(c) PROVE Kept'
  BY <1>18, Labels, NoneIsNoBox, NoneIsNoCall, CallKinds DEF TypeOK, Bound, Alone,
      Before, Orderly, Kept, Making, Cleanup, Goto, DeleteBox, stores, ghosts,
      InSection, Active
<1>19. ASSUME NEW c \in Calls, Destroy(c) PROVE Kept'
  BY <1>19, Labels, NoneIsNoBox, NoneIsNoCall, CallKinds DEF TypeOK, Bound, Alone,
      Before, Orderly, Kept, Making, Destroy, Goto, DeleteBox, stores, ghosts,
      InSection, Active
<1>20. ASSUME NEW c \in Calls, Forget(c) PROVE Kept'
  BY <1>20, Labels, NoneIsNoBox, NoneIsNoCall, CallKinds DEF TypeOK, Bound, Alone,
      Before, Orderly, Kept, Making, Forget, DestroyResult, Leave, Goto, DeleteIfMatch,
      stores, ghosts, InSection, Active
<1>21. ASSUME NEW c \in Calls, Confirm(c) PROVE Kept'
  BY <1>21, Labels, NoneIsNoBox, NoneIsNoCall, CallKinds DEF TypeOK, Bound, Alone,
      Before, Orderly, Kept, Making, Confirm, DestroyResult, Leave, Goto, stores,
      ghosts, InSection, Active
<1>22. ASSUME NEW c \in Calls, Unlock(c) PROVE Kept'
  BY <1>22, Labels, NoneIsNoBox, NoneIsNoCall, CallKinds DEF TypeOK, Bound, Alone,
      Before, Orderly, Kept, Making, Unlock, Goto, stores, ghosts, InSection, Active
<1>23. ASSUME NEW c \in Calls, DropRow(c) PROVE Kept'
  BY <1>23, Labels, NoneIsNoBox, NoneIsNoCall, CallKinds DEF TypeOK, Bound, Alone,
      Before, Orderly, Kept, Making, DropRow, Goto, stores, ghosts, InSection, Active
<1>24. ASSUME NEW b \in Boxes, BoxDies(b) PROVE Kept'
  BY <1>24, Labels, NoneIsNoBox, NoneIsNoCall, CallKinds DEF TypeOK, Bound, Alone,
      Before, Orderly, Kept, Making, BoxDies, DeleteBox, stores, ghosts, InSection,
      Active
<1> QED
  BY <1>1, <1>2, <1>3, <1>4, <1>5, <1>6, <1>7, <1>8, <1>9, <1>10, <1>11, <1>12, <1>13,
      <1>14, <1>15, <1>16, <1>17, <1>18, <1>19, <1>20, <1>21, <1>22, <1>23, <1>24,
      CalmSteps DEF Step

\* and what a deletion knows,
LEMMA DeletingStep ==
  ASSUME TypeOK, Alone, Orderly, Deleting, faults = 0, faults' = 0, Next
  PROVE  Deleting'
<1>1. ASSUME NEW c \in Calls, Lock(c) PROVE Deleting'
  BY <1>1, Labels, NoneIsNoBox, NoneIsNoCall, CallKinds DEF TypeOK, Alone, Before,
      Orderly, Deleting, Lock, Joins, Goto, stores, ghosts, InSection, Active
<1>2. ASSUME NEW c \in Calls, Read(c) PROVE Deleting'
  BY <1>2, Labels, NoneIsNoBox, NoneIsNoCall, CallKinds DEF TypeOK, Alone, Before,
      Orderly, Deleting, Read, See, Leave, Goto, stores, ghosts, InSection, Active
<1>3. ASSUME NEW c \in Calls, Exists(c) PROVE Deleting'
  BY <1>3, Labels, NoneIsNoBox, NoneIsNoCall, CallKinds DEF TypeOK, Alone, Before,
      Orderly, Deleting, Exists, Replace, Goto, Leave, stores, ghosts, InSection, Active
<1>4. ASSUME NEW c \in Calls, Connect(c) PROVE Deleting'
  BY <1>4, Labels, NoneIsNoBox, NoneIsNoCall, CallKinds DEF TypeOK, Alone, Before,
      Orderly, Deleting, Connect, Take, See, Leave, Goto, stores, ghosts, InSection,
      Active
<1>5. ASSUME NEW c \in Calls, Unbind(c) PROVE Deleting'
  BY <1>5, Labels, NoneIsNoBox, NoneIsNoCall, CallKinds DEF TypeOK, Alone, Before,
      Orderly, Deleting, Unbind, Replace, Goto, Leave, DeleteIfMatch, stores, ghosts,
      InSection, Active
<1>6. ASSUME NEW c \in Calls, List(c) PROVE Deleting'
  BY <1>6, Labels, NoneIsNoBox, NoneIsNoCall, CallKinds DEF TypeOK, Alone, Before,
      Orderly, Deleting, List, Goto, stores, ghosts, InSection, Active
<1>7. ASSUME NEW c \in Calls, Pick(c) PROVE Deleting'
  BY <1>7, Labels, NoneIsNoBox, NoneIsNoCall, CallKinds DEF TypeOK, Alone, Before,
      Orderly, Deleting, Pick, Take, See, Goto, stores, ghosts, InSection, Active
<1>8. ASSUME NEW c \in Calls, DeleteDuplicate(c) PROVE Deleting'
  BY <1>8, Labels, NoneIsNoBox, NoneIsNoCall, CallKinds DEF TypeOK, Alone, Before,
      Orderly, Deleting, DeleteDuplicate, Duplicates, DeleteBox, stores, ghosts,
      InSection, Active
<1>9. ASSUME NEW c \in Calls, Cleaned(c) PROVE Deleting'
  BY <1>9, Labels, NoneIsNoBox, NoneIsNoCall, CallKinds DEF TypeOK, Alone, Before,
      Orderly, Deleting, Cleaned, Goto, Duplicates, stores, ghosts, InSection, Active
<1>10. ASSUME NEW c \in Calls, Adopt(c) PROVE Deleting'
  BY <1>10, Labels, NoneIsNoBox, NoneIsNoCall, CallKinds DEF TypeOK, Alone, Before,
      Orderly, Deleting, Adopt, Leave, Goto, SetNX, stores, ghosts, InSection, Active
<1>11. ASSUME NEW c \in Calls, Create(c) PROVE Deleting'
  BY <1>11, Labels, NoneIsNoBox, NoneIsNoCall, CallKinds DEF TypeOK, Alone, Before,
      Orderly, Deleting, Create, Take, See, Goto, CreateBox, stores, ghosts, InSection,
      Active
<1>12. ASSUME NEW c \in Calls, Recheck(c) PROVE Deleting'
  BY <1>12, Labels, NoneIsNoBox, NoneIsNoCall, CallKinds DEF TypeOK, Alone, Before,
      Orderly, Deleting, Recheck, Goto, stores, ghosts, InSection, Active
<1>13. ASSUME NEW c \in Calls, Bind(c) PROVE Deleting'
  BY <1>13, Labels, NoneIsNoBox, NoneIsNoCall, CallKinds DEF TypeOK, Alone, Before,
      Orderly, Deleting, Bind, Leave, Goto, SetNX, stores, ghosts, InSection, Active
<1>14. ASSUME NEW c \in Calls, Winner(c) PROVE Deleting'
  BY <1>14, Labels, NoneIsNoBox, NoneIsNoCall, CallKinds DEF TypeOK, Alone, Before,
      Orderly, Deleting, Winner, See, Leave, Goto, stores, ghosts, InSection, Active
<1>15. ASSUME NEW c \in Calls, Retire(c) PROVE Deleting'
  BY <1>15, Labels, NoneIsNoBox, NoneIsNoCall, CallKinds DEF TypeOK, Alone, Before,
      Orderly, Deleting, Retire, Leave, Goto, DeleteBox, stores, ghosts, InSection,
      Active
<1>16. ASSUME NEW c \in Calls, Follow(c) PROVE Deleting'
  BY <1>16, Labels, NoneIsNoBox, NoneIsNoCall, CallKinds DEF TypeOK, Alone, Before,
      Orderly, Deleting, Follow, See, Leave, Goto, stores, ghosts, InSection, Active
<1>17. ASSUME NEW c \in Calls, Join(c) PROVE Deleting'
  BY <1>17, Labels, NoneIsNoBox, NoneIsNoCall, CallKinds DEF TypeOK, Alone, Before,
      Orderly, Deleting, Join, Take, See, Leave, Goto, stores, ghosts, InSection, Active
<1>18. ASSUME NEW c \in Calls, Cleanup(c) PROVE Deleting'
  BY <1>18, Labels, NoneIsNoBox, NoneIsNoCall, CallKinds DEF TypeOK, Alone, Before,
      Orderly, Deleting, Cleanup, Goto, DeleteBox, stores, ghosts, InSection, Active
<1>19. ASSUME NEW c \in Calls, Destroy(c) PROVE Deleting'
  BY <1>19, Labels, NoneIsNoBox, NoneIsNoCall, CallKinds DEF TypeOK, Alone, Before,
      Orderly, Deleting, Destroy, Goto, DeleteBox, stores, ghosts, InSection, Active
<1>20. ASSUME NEW c \in Calls, Forget(c) PROVE Deleting'
  BY <1>20, Labels, NoneIsNoBox, NoneIsNoCall, CallKinds DEF TypeOK, Alone, Before,
      Orderly, Deleting, Forget, DestroyResult, Leave, Goto, DeleteIfMatch, stores,
      ghosts, InSection, Active
<1>21. ASSUME NEW c \in Calls, Confirm(c) PROVE Deleting'
  BY <1>21, Labels, NoneIsNoBox, NoneIsNoCall, CallKinds DEF TypeOK, Alone, Before,
      Orderly, Deleting, Confirm, DestroyResult, Leave, Goto, stores, ghosts, InSection,
      Active
<1>22. ASSUME NEW c \in Calls, Unlock(c) PROVE Deleting'
  BY <1>22, Labels, NoneIsNoBox, NoneIsNoCall, CallKinds DEF TypeOK, Alone, Before,
      Orderly, Deleting, Unlock, Goto, stores, ghosts, InSection, Active
<1>23. ASSUME NEW c \in Calls, DropRow(c) PROVE Deleting'
  BY <1>23, Labels, NoneIsNoBox, NoneIsNoCall, CallKinds DEF TypeOK, Alone, Before,
      Orderly, Deleting, DropRow, Goto, stores, ghosts, InSection, Active
<1>24. ASSUME NEW b \in Boxes, BoxDies(b) PROVE Deleting'
  BY <1>24, Labels, NoneIsNoBox, NoneIsNoCall, CallKinds DEF TypeOK, Alone, Before,
      Orderly, Deleting, BoxDies, DeleteBox, stores, ghosts, InSection, Active
<1> QED
  BY <1>1, <1>2, <1>3, <1>4, <1>5, <1>6, <1>7, <1>8, <1>9, <1>10, <1>11, <1>12, <1>13,
      <1>14, <1>15, <1>16, <1>17, <1>18, <1>19, <1>20, <1>21, <1>22, <1>23, <1>24,
      CalmSteps DEF Step

\* and what it leaves.
LEMMA GoneStep ==
  ASSUME TypeOK, Alone, Orderly, Kept, Deleting, Gone, faults = 0, faults' = 0, Next
  PROVE  Gone'
<1>1. ASSUME NEW c \in Calls, Lock(c) PROVE Gone'
  BY <1>1, Labels, NoneIsNoBox, NoneIsNoCall, CallKinds DEF TypeOK, Alone, Before,
      Orderly, Kept, Making, Deleting, Gone, Lock, Joins, Goto, stores, ghosts,
      InSection, Active
<1>2. ASSUME NEW c \in Calls, Read(c) PROVE Gone'
  BY <1>2, Labels, NoneIsNoBox, NoneIsNoCall, CallKinds DEF TypeOK, Alone, Before,
      Orderly, Kept, Making, Deleting, Gone, Read, See, Leave, Goto, stores, ghosts,
      InSection, Active
<1>3. ASSUME NEW c \in Calls, Exists(c) PROVE Gone'
  BY <1>3, Labels, NoneIsNoBox, NoneIsNoCall, CallKinds DEF TypeOK, Alone, Before,
      Orderly, Kept, Making, Deleting, Gone, Exists, Replace, Goto, Leave, stores,
      ghosts, InSection, Active
<1>4. ASSUME NEW c \in Calls, Connect(c) PROVE Gone'
  BY <1>4, Labels, NoneIsNoBox, NoneIsNoCall, CallKinds DEF TypeOK, Alone, Before,
      Orderly, Kept, Making, Deleting, Gone, Connect, Take, See, Leave, Goto, stores,
      ghosts, InSection, Active
<1>5. ASSUME NEW c \in Calls, Unbind(c) PROVE Gone'
  BY <1>5, Labels, NoneIsNoBox, NoneIsNoCall, CallKinds DEF TypeOK, Alone, Before,
      Orderly, Kept, Making, Deleting, Gone, Unbind, Replace, Goto, Leave,
      DeleteIfMatch, stores, ghosts, InSection, Active
<1>6. ASSUME NEW c \in Calls, List(c) PROVE Gone'
  BY <1>6, Labels, NoneIsNoBox, NoneIsNoCall, CallKinds DEF TypeOK, Alone, Before,
      Orderly, Kept, Making, Deleting, Gone, List, Goto, stores, ghosts, InSection,
      Active
<1>7. ASSUME NEW c \in Calls, Pick(c) PROVE Gone'
  BY <1>7, Labels, NoneIsNoBox, NoneIsNoCall, CallKinds DEF TypeOK, Alone, Before,
      Orderly, Kept, Making, Deleting, Gone, Pick, Take, See, Goto, stores, ghosts,
      InSection, Active
<1>8. ASSUME NEW c \in Calls, DeleteDuplicate(c) PROVE Gone'
  BY <1>8, Labels, NoneIsNoBox, NoneIsNoCall, CallKinds DEF TypeOK, Alone, Before,
      Orderly, Kept, Making, Deleting, Gone, DeleteDuplicate, Duplicates, DeleteBox,
      stores, ghosts, InSection, Active
<1>9. ASSUME NEW c \in Calls, Cleaned(c) PROVE Gone'
  BY <1>9, Labels, NoneIsNoBox, NoneIsNoCall, CallKinds DEF TypeOK, Alone, Before,
      Orderly, Kept, Making, Deleting, Gone, Cleaned, Goto, Duplicates, stores, ghosts,
      InSection, Active
<1>10. ASSUME NEW c \in Calls, Adopt(c) PROVE Gone'
  BY <1>10, Labels, NoneIsNoBox, NoneIsNoCall, CallKinds DEF TypeOK, Alone, Before,
      Orderly, Kept, Making, Deleting, Gone, Adopt, Leave, Goto, SetNX, stores, ghosts,
      InSection, Active
<1>11. ASSUME NEW c \in Calls, Create(c) PROVE Gone'
  BY <1>11, Labels, NoneIsNoBox, NoneIsNoCall, CallKinds DEF TypeOK, Alone, Before,
      Orderly, Kept, Making, Deleting, Gone, Create, Take, See, Goto, CreateBox, stores,
      ghosts, InSection, Active
<1>12. ASSUME NEW c \in Calls, Recheck(c) PROVE Gone'
  BY <1>12, Labels, NoneIsNoBox, NoneIsNoCall, CallKinds DEF TypeOK, Alone, Before,
      Orderly, Kept, Making, Deleting, Gone, Recheck, Goto, stores, ghosts, InSection,
      Active
<1>13. ASSUME NEW c \in Calls, Bind(c) PROVE Gone'
  BY <1>13, Labels, NoneIsNoBox, NoneIsNoCall, CallKinds DEF TypeOK, Alone, Before,
      Orderly, Kept, Making, Deleting, Gone, Bind, Leave, Goto, SetNX, stores, ghosts,
      InSection, Active
<1>14. ASSUME NEW c \in Calls, Winner(c) PROVE Gone'
  BY <1>14, Labels, NoneIsNoBox, NoneIsNoCall, CallKinds DEF TypeOK, Alone, Before,
      Orderly, Kept, Making, Deleting, Gone, Winner, See, Leave, Goto, stores, ghosts,
      InSection, Active
<1>15. ASSUME NEW c \in Calls, Retire(c) PROVE Gone'
  BY <1>15, Labels, NoneIsNoBox, NoneIsNoCall, CallKinds DEF TypeOK, Alone, Before,
      Orderly, Kept, Making, Deleting, Gone, Retire, Leave, Goto, DeleteBox, stores,
      ghosts, InSection, Active
<1>16. ASSUME NEW c \in Calls, Follow(c) PROVE Gone'
  BY <1>16, Labels, NoneIsNoBox, NoneIsNoCall, CallKinds DEF TypeOK, Alone, Before,
      Orderly, Kept, Making, Deleting, Gone, Follow, See, Leave, Goto, stores, ghosts,
      InSection, Active
<1>17. ASSUME NEW c \in Calls, Join(c) PROVE Gone'
  BY <1>17, Labels, NoneIsNoBox, NoneIsNoCall, CallKinds DEF TypeOK, Alone, Before,
      Orderly, Kept, Making, Deleting, Gone, Join, Take, See, Leave, Goto, stores,
      ghosts, InSection, Active
<1>18. ASSUME NEW c \in Calls, Cleanup(c) PROVE Gone'
  BY <1>18, Labels, NoneIsNoBox, NoneIsNoCall, CallKinds DEF TypeOK, Alone, Before,
      Orderly, Kept, Making, Deleting, Gone, Cleanup, Goto, DeleteBox, stores, ghosts,
      InSection, Active
<1>19. ASSUME NEW c \in Calls, Destroy(c) PROVE Gone'
  BY <1>19, Labels, NoneIsNoBox, NoneIsNoCall, CallKinds DEF TypeOK, Alone, Before,
      Orderly, Kept, Making, Deleting, Gone, Destroy, Goto, DeleteBox, stores, ghosts,
      InSection, Active
<1>20. ASSUME NEW c \in Calls, Forget(c) PROVE Gone'
  BY <1>20, Labels, NoneIsNoBox, NoneIsNoCall, CallKinds DEF TypeOK, Alone, Before,
      Orderly, Kept, Making, Deleting, Gone, Forget, DestroyResult, Leave, Goto,
      DeleteIfMatch, stores, ghosts, InSection, Active
<1>21. ASSUME NEW c \in Calls, Confirm(c) PROVE Gone'
  BY <1>21, Labels, NoneIsNoBox, NoneIsNoCall, CallKinds DEF TypeOK, Alone, Before,
      Orderly, Kept, Making, Deleting, Gone, Confirm, DestroyResult, Leave, Goto,
      stores, ghosts, InSection, Active
<1>22. ASSUME NEW c \in Calls, Unlock(c) PROVE Gone'
  BY <1>22, Labels, NoneIsNoBox, NoneIsNoCall, CallKinds DEF TypeOK, Alone, Before,
      Orderly, Kept, Making, Deleting, Gone, Unlock, Goto, stores, ghosts, InSection,
      Active
<1>23. ASSUME NEW c \in Calls, DropRow(c) PROVE Gone'
  BY <1>23, Labels, NoneIsNoBox, NoneIsNoCall, CallKinds DEF TypeOK, Alone, Before,
      Orderly, Kept, Making, Deleting, Gone, DropRow, Goto, stores, ghosts, InSection,
      Active
<1>24. ASSUME NEW b \in Boxes, BoxDies(b) PROVE Gone'
  BY <1>24, Labels, NoneIsNoBox, NoneIsNoCall, CallKinds DEF TypeOK, Alone, Before,
      Orderly, Kept, Making, Deleting, Gone, BoxDies, DeleteBox, stores, ghosts,
      InSection, Active
<1> QED
  BY <1>1, <1>2, <1>3, <1>4, <1>5, <1>6, <1>7, <1>8, <1>9, <1>10, <1>11, <1>12, <1>13,
      <1>14, <1>15, <1>16, <1>17, <1>18, <1>19, <1>20, <1>21, <1>22, <1>23, <1>24,
      CalmSteps DEF Step


\* Without a fault the order holds at the start, and every step keeps it.
LEMMA QuietKept ==
  /\ Init => QuietInv
  /\ SandboxInv /\ QuietInv /\ [Next]_vars => QuietInv'
<1>1. Init => QuietInv
  BY Labels, CallKinds, NoneIsNoCall DEF Init, QuietInv, Quiet, Orderly, Kept, Deleting, Gone, InSection
<1>2. ASSUME SandboxInv, QuietInv, Next PROVE QuietInv'
  <2> SUFFICES ASSUME faults' = 0 PROVE Quiet'
    BY DEF QuietInv
  <2>1. faults = 0
    BY <1>2, FaultsGrow DEF SandboxInv
  <2> QED
    BY <1>2, <2>1, OrderlyStep, KeptStep, DeletingStep, GoneStep DEF SandboxInv, QuietInv, Quiet
<1>3. ASSUME QuietInv, UNCHANGED vars PROVE QuietInv'
  BY <1>3 DEF QuietInv, Quiet, Orderly, Kept, Deleting, Gone, InSection, vars, stores, ghosts
<1> QED
  BY <1>1, <1>2, <1>3

\* The invariant of the runs in which nothing fails.
LEMMA QuietHolds == Spec => [](SandboxInv /\ QuietInv)
<1>1. SandboxInv /\ QuietInv /\ [Next]_vars => (SandboxInv /\ QuietInv)'
  BY StepInv, QuietKept
<1> QED
  BY <1>1, InitInv, QuietKept, PTL DEF Spec

\* The types of the state, through faults and crashes: sandboxes are numbered as
\* they are made, and who holds the lock is at work or dead (session_lifecycle.go).
THEOREM TypeCorrect == Spec => []TypeOK
<1>1. SandboxInv => TypeOK
  BY DEF SandboxInv
<1> QED
  BY <1>1, InvHolds, PTL

\* Without a fault no sandbox is left behind: every live one is the bound one or
\* in the hands of the call that holds the lock (createAndBind, Destroy).
THEOREM NothingIsLeftBehind == Spec => []NothingLeaks
<1>1. QuietInv => NothingLeaks
  BY DEF QuietInv, Quiet, Kept, NothingLeaks
<1> QED
  BY <1>1, QuietHolds, PTL

\* A session deleted without a fault leaves neither sandbox nor binding, unless a
\* Resolve found the row between Destroy and the deletion of the row (DeleteSession).
THEOREM DeletionIsClean == Spec => []QuietDeletion
<1>1. QuietInv => QuietDeletion
  BY DEF QuietInv, Quiet, Gone, QuietDeletion
<1> QED
  BY <1>1, QuietHolds, PTL
=============================================================================
