---------------------------- MODULE SubTurnProofs -----------------------------
(***************************************************************************)
(* Proofs about SubTurn, for any number of sub-turns, slots, results,      *)
(* aborts and switches.  The inductive invariant adds to the properties    *)
(* who waits for whom (TreeInv), at which points of spawnSubTurn a result  *)
(* and its fate exist (ResultInv) and what lies in the channels (QueueInv).*)
(***************************************************************************)
EXTENDS SubTurn, FiniteSetTheorems, TLAPS

States == {"free", "sem", "check", "link", "lock", "run", "await", "ran", "cleanup",
           "select", "done"}

\* A call of spawnSubTurn whose caller waits for the result.
Waiting(c) == ~async[c] /\ pc[c] \notin {"free", "done"}

\* The caller of a synchronous sub-turn does nothing else meanwhile; so it has one.
TreeInv ==
    /\ \A c \in Children : Waiting(c) => pc[parent[c]] = "await"
    /\ \A c, d \in Children : Waiting(c) /\ Waiting(d) /\ parent[c] = parent[d] => c = d

\* A result exists once runTurn has returned; its fate is decided as the call returns,
\* and only a background call hands it over.
ResultInv ==
    \A c \in Children :
        /\ pc[c] \in {"free", "sem", "check", "link", "lock", "run", "await"}
               => result[c] = "none"
        /\ pc[c] = "ran" => result[c] = "value"
        /\ pc[c] = "select" => async[c]
        /\ pc[c] # "done" => fate[c] = "none"
        /\ pc[c] = "done" /\ async[c] /\ result[c] = "value" => fate[c] # "none"
        /\ fate[c] # "none" => async[c] /\ result[c] = "value"
        /\ fate[c] = "orphan" => parent[c] = 0 \/ fin[parent[c]] # "no"

\* A channel holds results of the turn's own background children that have returned,
\* each once, and all that were sent and not consumed.
QueueInv ==
    /\ \A p \in Turns : \A i \in DOMAIN pending[p] :
          /\ pc[pending[p][i]] = "done" /\ async[pending[p][i]]
          /\ parent[pending[p][i]] = p
          /\ result[pending[p][i]] = "value" => fate[pending[p][i]] = "sent"
    /\ \A p \in Turns : \A i, j \in DOMAIN pending[p] : pending[p][i] = pending[p][j] => i = j
    /\ \A c \in Children : fate[c] = "sent" =>
          \E i \in DOMAIN pending[parent[c]] : pending[parent[c]][i] = c

Inv == TypeOK /\ SlotsExact /\ TreeInv /\ ResultInv /\ QueueInv

-----------------------------------------------------------------------------
\* The children a semaphore has a token for.
Holders(p) == {c \in Children : parent[c] = p /\ semAcquired[c]}

LEMMA HoldersAreCounted ==
    ASSUME NEW p
    PROVE  IsFiniteSet(Holders(p)) /\ Cardinality(Holders(p)) \in Nat
<1>1. IsFiniteSet(Children)
    BY SubTurnAssumption, FS_Interval DEF Children
<1> QED BY <1>1, FS_Subset, FS_CardinalityType DEF Holders

LEMMA ChildrenAreTurns == /\ Children \subseteq Turns /\ 0 \in Turns /\ 0 \notin Children
BY SubTurnAssumption DEF Children, Turns

\* The types of what the slots and the tree depend on.
LEMMA SlotTypes ==
    ASSUME TypeOK
    PROVE  /\ pc \in [Turns -> States] /\ parent \in [Children -> Turns]
           /\ async \in [Children -> BOOLEAN] /\ semAcquired \in [Children -> BOOLEAN]
           /\ sem \in [Turns -> 0 .. MaxConcurrent]
           /\ \A p \in Turns : sem[p] \in Nat /\ sem[p] <= MaxConcurrent
BY SubTurnAssumption DEF TypeOK, States

\* The elements of a sequence after an element was added, and after one was removed.
LEMMA AppendElements ==
    ASSUME NEW S, NEW s \in Seq(S), NEW e \in S
    PROVE  /\ DOMAIN Append(s, e) = DOMAIN s \cup {Len(s) + 1}
           /\ Len(s) + 1 \notin DOMAIN s
           /\ Append(s, e)[Len(s) + 1] = e
           /\ \A i \in DOMAIN s : Append(s, e)[i] = s[i]
<1>1. DOMAIN s = 1 .. Len(s) /\ Len(s) \in Nat
    OBVIOUS
<1>2. Append(s, e) \in Seq(S) /\ Len(Append(s, e)) = Len(s) + 1
    OBVIOUS
<1>3. DOMAIN Append(s, e) = 1 .. Len(s) + 1
    BY <1>2
<1> QED BY <1>1, <1>3

LEMMA TailElements ==
    ASSUME NEW S, NEW s \in Seq(S), s # <<>>
    PROVE  /\ \A i \in DOMAIN Tail(s) :
                 i + 1 \in DOMAIN s /\ Tail(s)[i] = s[i + 1] /\ i \in Nat \ {0}
           /\ \A i \in DOMAIN s : i # 1 => i - 1 \in DOMAIN Tail(s)
           /\ \A i \in DOMAIN s : i \in Nat
<1>1. DOMAIN s = 1 .. Len(s) /\ Len(s) \in Nat \ {0}
    OBVIOUS
<1>2. Tail(s) \in Seq(S) /\ Len(Tail(s)) = Len(s) - 1
    BY <1>1
<1>3. DOMAIN Tail(s) = 1 .. Len(s) - 1
    BY <1>2
<1>4. \A i \in 1 .. Len(s) - 1 : Tail(s)[i] = s[i + 1]
    BY <1>1
<1> QED BY <1>1, <1>3, <1>4

\* The invariant holds initially.
LEMMA InitInv == Init => Inv
<1> SUFFICES ASSUME Init PROVE Inv
    OBVIOUS
<1>1. TypeOK
    BY SubTurnAssumption, ChildrenAreTurns DEF Init, TypeOK
<1>2. SlotsExact
  <2>1. ASSUME NEW p \in Turns
        PROVE  {c \in Children : parent[c] = p /\ semAcquired[c]} = {}
    BY DEF Init
  <2> QED BY <2>1, FS_EmptySet DEF Init, SlotsExact
<1>3. TreeInv /\ ResultInv /\ QueueInv
    BY ChildrenAreTurns DEF Init, TreeInv, Waiting, ResultInv, QueueInv, Children
<1> QED BY <1>1, <1>2, <1>3 DEF Inv

\* The channels' part of the invariant depends on nothing else.
LEMMA QueueFrame ==
    ASSUME Inv, UNCHANGED <<pending, result, fate>>,
           \A c \in Children : pc[c] = "done" =>
               pc'[c] = "done" /\ async'[c] = async[c] /\ parent'[c] = parent[c]
    PROVE  QueueInv'
<1>1. \A p \in Turns : \A i \in DOMAIN pending[p] : pending[p][i] \in Children
    BY DEF Inv, TypeOK
<1>2. \A c \in Children : fate[c] = "sent" => pc[c] = "done"
    BY DEF Inv, ResultInv
<1> QED BY <1>1, <1>2 DEF Inv, QueueInv

\* Nor does the tree, when one turn that runs makes a step of its own.
LEMMA GotoKeepsTree ==
    ASSUME Inv, NEW t \in Turns, NEW l, pc[t] \notin {"free", "await", "done"},
           Goto(t, l), UNCHANGED tree
    PROVE  TreeInv'
<1>1. \A d \in Turns \ {t} : pc'[d] = pc[d]
    BY SlotTypes DEF Inv, Goto
<1>2. ASSUME NEW d \in Children, Waiting(d)'
      PROVE  Waiting(d) /\ pc[parent[d]] = "await" /\ pc'[parent'[d]] = "await"
  <2>1. Waiting(d)
    BY <1>1, <1>2, ChildrenAreTurns DEF Waiting, tree
  <2>2. pc[parent[d]] = "await" /\ parent[d] \in Turns
    BY <2>1, SlotTypes DEF Inv, TreeInv
  <2> QED BY <2>1, <2>2, <1>1 DEF tree
<1> QED BY <1>2 DEF Inv, TreeInv, tree

-----------------------------------------------------------------------------
(* The steps of spawnSubTurn.                                              *)

\* A child gives back the slot it has, if it has one.
LEMMA TokenReturns ==
    ASSUME Inv, NEW c \in Children, UNCHANGED parent,
           semAcquired' = [semAcquired EXCEPT ![c] = FALSE],
           sem' = [sem EXCEPT ![parent[c]] = @ - (IF semAcquired[c] THEN 1 ELSE 0)]
    PROVE  /\ \A p \in Turns : sem'[p] = Cardinality(Holders(p)')
           /\ sem' \in [Turns -> 0 .. MaxConcurrent]
           /\ semAcquired' \in [Children -> BOOLEAN]
<1> DEFINE q == parent[c]
<1>1. q \in Turns
    BY SlotTypes DEF Inv
<1>2. \A p \in Turns : Holders(p)' = IF p = q THEN Holders(p) \ {c} ELSE Holders(p)
    BY SlotTypes DEF Inv, Holders
<1>3. \A p \in Turns : sem'[p] = Cardinality(Holders(p)')
  <2> SUFFICES ASSUME NEW p \in Turns PROVE sem'[p] = Cardinality(Holders(p)')
    OBVIOUS
  <2>1. sem[p] = Cardinality(Holders(p)) /\ sem[p] \in Nat
    BY SlotTypes DEF Inv, SlotsExact, Holders
  <2>2. c \in Holders(q) <=> semAcquired[c]
    BY DEF Holders
  <2>3. CASE p = q
    <3>1. sem'[p] = sem[p] - (IF semAcquired[c] THEN 1 ELSE 0)
      BY <2>3, SlotTypes DEF Inv
    <3>2. Holders(p)' = Holders(p) \ {c} /\ IsFiniteSet(Holders(p))
      BY <2>3, <1>2, HoldersAreCounted
    <3>3. Cardinality(Holders(p) \ {c}) =
              IF c \in Holders(p) THEN Cardinality(Holders(p)) - 1 ELSE Cardinality(Holders(p))
      BY <3>2, FS_RemoveElement
    <3> HIDE DEF q
    <3> QED BY <2>1, <2>2, <2>3, <3>1, <3>2, <3>3
  <2>4. CASE p # q
    BY <2>1, <2>4, <1>2, SlotTypes DEF Inv
  <2> QED BY <2>3, <2>4
<1>4. sem' \in [Turns -> 0 .. MaxConcurrent]
  <2>1. \A p \in Turns : sem'[p] \in Nat
    <3> SUFFICES ASSUME NEW p \in Turns PROVE sem'[p] \in Nat
      OBVIOUS
    <3>1. Holders(p)' \subseteq Holders(p)
      BY <1>2
    <3> QED BY <3>1, <1>3, HoldersAreCounted, FS_Subset, FS_CardinalityType
  <2>2. \A p \in Turns : sem'[p] <= sem[p] /\ sem[p] \in Nat /\ sem[p] <= MaxConcurrent
    BY <1>1, SlotTypes DEF Inv
  <2>3. \A p \in Turns : sem'[p] \in 0 .. MaxConcurrent
    BY <2>1, <2>2, SubTurnAssumption
  <2> QED BY <2>3, SlotTypes DEF Inv
<1> QED BY <1>3, <1>4, SlotTypes DEF Inv

\* The call returns: the slot it may hold is given back, and the caller goes on.
LEMMA ReturnKeeps ==
    ASSUME Inv, NEW c \in Children, pc[c] \in {"sem", "check", "cleanup", "select"},
           Return(c), UNCHANGED tree
    PROVE  /\ SlotsExact' /\ TreeInv'
           /\ pc' \in [Turns -> States]
           /\ semAcquired' \in [Children -> BOOLEAN]
           /\ sem' \in [Turns -> 0 .. MaxConcurrent]
           /\ pc'[c] = "done"
           /\ \A d \in Turns \ {c} : pc'[d] = pc[d] \/ (pc[d] = "await" /\ pc'[d] = "run")
<1> USE DEF Return, tree, slots
<1> DEFINE q == parent[c]
<1>1. q \in Turns /\ c \in Turns
    BY ChildrenAreTurns DEF Inv, TypeOK
<1>2. q # c \/ async[c]
    BY DEF Inv, TreeInv, Waiting
<1>3. pc'[c] = "done"
    BY <1>1, <1>2 DEF Inv, TypeOK
<1>4. \A d \in Turns \ {c} :
          pc'[d] = IF d = q /\ ~async[c] THEN "run" ELSE pc[d]
    BY <1>1 DEF Inv, TypeOK
<1>5. ~async[c] => pc[q] = "await"
    BY DEF Inv, TreeInv, Waiting
<1>6. pc' \in [Turns -> States]
    BY <1>1, SlotTypes DEF Inv, States
<1>7. /\ semAcquired' = [semAcquired EXCEPT ![c] = FALSE]
      /\ sem' = [sem EXCEPT ![q] = @ - (IF semAcquired[c] THEN 1 ELSE 0)]
  <2>1. CASE semAcquired[c]
    BY <2>1
  <2>2. CASE ~semAcquired[c]
    BY <2>2, <1>1, SubTurnAssumption DEF Inv, TypeOK
  <2> QED BY <2>1, <2>2
<1>8. /\ \A p \in Turns : sem'[p] = Cardinality(Holders(p)')
      /\ sem' \in [Turns -> 0 .. MaxConcurrent]
      /\ semAcquired' \in [Children -> BOOLEAN]
    BY <1>7, TokenReturns
<1>9. SlotsExact'
    BY ZenonT(30), <1>3, <1>4, <1>5, <1>7, <1>8, ChildrenAreTurns DEF Inv, TypeOK, SlotsExact, Holders
<1>10. TreeInv'
  <2>1. \A d \in Children : Waiting(d)' => Waiting(d) /\ d # c
    <3> SUFFICES ASSUME NEW d \in Children, Waiting(d)' PROVE Waiting(d) /\ d # c
      OBVIOUS
    <3>1. d # c /\ d \in Turns /\ async'[d] = async[d]
      BY <1>3, ChildrenAreTurns DEF Waiting
    <3>2. pc[d] # "free" /\ pc[d] # "done"
      BY <3>1, <1>4, <1>5 DEF Waiting
    <3> QED BY <3>1, <3>2 DEF Waiting
  <2>2. \A d \in Children : Waiting(d) /\ d # c => (async[c] \/ parent[d] # q)
    BY DEF Inv, TreeInv, Waiting
  <2>3. ASSUME NEW d \in Children, Waiting(d)'
        PROVE  pc'[parent'[d]] = "await"
    <3>1. parent[d] \in Turns /\ pc[parent[d]] = "await"
      BY <2>1, <2>3 DEF Inv, TypeOK, TreeInv
    <3>2. parent[d] # c
      BY <3>1
    <3> QED BY <2>1, <2>2, <2>3, <3>1, <3>2, <1>4
  <2> QED BY <2>1, <2>3 DEF Inv, TreeInv
<1> QED BY <1>3, <1>4, <1>5, <1>6, <1>8, <1>9, <1>10

\* Before the call has a result, its return changes nothing else.
LEMMA EarlyReturnStep ==
    ASSUME Inv, NEW c \in Children, pc[c] \in {"sem", "check"}, Return(c),
           UNCHANGED <<tree, children, delivery, lock, stopping, canceled>>
    PROVE  Inv'
<1> USE DEF tree, delivery, lock, stopping
<1>1. /\ SlotsExact' /\ TreeInv' /\ pc'[c] = "done"
      /\ \A d \in Turns \ {c} : pc'[d] = pc[d] \/ (pc[d] = "await" /\ pc'[d] = "run")
    BY ReturnKeeps
<1>2. TypeOK'
    BY ReturnKeeps DEF Inv, TypeOK, States
<1>3. ResultInv'
    BY SMTT(20), <1>1, ChildrenAreTurns DEF Inv, TypeOK, ResultInv
<1>4. \A d \in Children : pc[d] = "done" => pc'[d] = "done"
    BY <1>1, ChildrenAreTurns
<1>5. QueueInv'
    BY <1>4, QueueFrame
<1> QED BY <1>1, <1>2, <1>3, <1>5 DEF Inv

LEMMA SpawnStep ==
    ASSUME Inv, NEW p \in Turns, NEW c \in Children, Spawn(p, c)
    PROVE  Inv'
<1> USE DEF Spawn, slots, delivery, lock, stopping
<1>1. PICK a \in BOOLEAN :
          /\ async' = [async EXCEPT ![c] = a]
          /\ pc' = [pc EXCEPT ![c] = IF p = 0 THEN "check" ELSE "sem",
                              ![p] = IF a THEN @ ELSE "await"]
    OBVIOUS
<1>2. c # p /\ c \in Turns
    BY ChildrenAreTurns
<1>3. /\ pc'[c] \in {"check", "sem"}
      /\ pc'[p] = IF a THEN "run" ELSE "await"
      /\ \A d \in Turns \ {c, p} : pc'[d] = pc[d]
    BY <1>1, <1>2 DEF Inv, TypeOK
<1>4. /\ async'[c] = a /\ parent'[c] = p
      /\ \A d \in Children \ {c} : async'[d] = async[d] /\ parent'[d] = parent[d]
    BY <1>1 DEF Inv, TypeOK
<1>5. TypeOK'
  <2>1. pc' \in [Turns -> States]
    BY <1>1, <1>2, SlotTypes DEF Inv, States
  <2>2. parent' \in [Children -> Turns] /\ async' \in [Children -> BOOLEAN]
    BY <1>1, SlotTypes DEF Inv
  <2> QED BY <2>1, <2>2 DEF Inv, TypeOK, States
<1>6. ~semAcquired[c]
    BY DEF Inv, SlotsExact
<1>7. SlotsExact'
  <2>1. \A q \in Turns : Holders(q)' = Holders(q)
    BY <1>4, <1>6 DEF Holders
  <2>2. \A q \in Turns : sem'[q] = Cardinality(Holders(q)')
    BY <2>1 DEF Inv, SlotsExact, Holders
  <2>3. \A d \in Children : pc'[d] \in {"free", "sem", "done"} => ~semAcquired'[d]
    BY <1>2, <1>3, <1>6, ChildrenAreTurns DEF Inv, SlotsExact
  <2> QED BY <2>2, <2>3 DEF SlotsExact, Holders
<1>8. TreeInv'
  <2>1. \A d \in Children \ {c} : Waiting(d)' <=> Waiting(d)
    BY <1>3, <1>4, ChildrenAreTurns DEF Waiting
  <2>2. Waiting(c)' <=> ~a
    BY <1>3, <1>4 DEF Waiting
  <2>3. \A d \in Children \ {c} : Waiting(d) => parent[d] # p /\ parent[d] # c /\ parent[d] \in Turns
    BY SlotTypes DEF Inv, TreeInv
  <2>4. ASSUME NEW d \in Children, Waiting(d)'
        PROVE  pc'[parent'[d]] = "await"
    <3>1. CASE d = c
      BY <3>1, <2>2, <2>4, <1>3, <1>4
    <3>2. CASE d # c
      <4>1. Waiting(d) /\ parent[d] \notin {p, c} /\ parent[d] \in Turns
        BY <3>2, <2>1, <2>3, <2>4
      <4>2. pc[parent[d]] = "await"
        BY <4>1 DEF Inv, TreeInv
      <4> QED BY ZenonT(20), <3>2, <4>1, <4>2, <1>3, <1>4
    <3> QED BY <3>1, <3>2
  <2>5. ASSUME NEW d \in Children, NEW e \in Children,
               Waiting(d)', Waiting(e)', parent'[d] = parent'[e]
        PROVE  d = e
    BY <2>1, <2>2, <2>3, <2>5, <1>4 DEF Inv, TreeInv
  <2> QED BY <2>4, <2>5 DEF TreeInv
<1>9. ResultInv'
  <2>1. result[c] = "none" /\ fate[c] = "none"
    BY DEF Inv, ResultInv
  <2>2. \A d \in Children \ {c} : pc'[d] = pc[d] \/ (pc[d] = "run" /\ pc'[d] = "await")
    BY <1>3, ChildrenAreTurns
  <2> SUFFICES ASSUME NEW d \in Children
               PROVE  /\ pc'[d] \in {"free", "sem", "check", "link", "lock", "run", "await"}
                             => result'[d] = "none"
                      /\ pc'[d] = "ran" => result'[d] = "value"
                      /\ pc'[d] = "select" => async'[d]
                      /\ pc'[d] # "done" => fate'[d] = "none"
                      /\ pc'[d] = "done" /\ async'[d] /\ result'[d] = "value" => fate'[d] # "none"
                      /\ fate'[d] # "none" => async'[d] /\ result'[d] = "value"
                      /\ fate'[d] = "orphan" => parent'[d] = 0 \/ fin'[parent'[d]] # "no"
    BY DEF ResultInv
  <2>3. CASE d = c
    BY <2>1, <2>3, <1>3
  <2>4. CASE d # c
    <3>1. /\ pc[d] \in {"free", "sem", "check", "link", "lock", "run", "await"}
                 => result[d] = "none"
          /\ pc[d] = "ran" => result[d] = "value"
          /\ pc[d] = "select" => async[d]
          /\ pc[d] # "done" => fate[d] = "none"
          /\ pc[d] = "done" /\ async[d] /\ result[d] = "value" => fate[d] # "none"
          /\ fate[d] # "none" => async[d] /\ result[d] = "value"
          /\ fate[d] = "orphan" => parent[d] = 0 \/ fin[parent[d]] # "no"
      BY DEF Inv, ResultInv
    <3>2. async'[d] = async[d] /\ parent'[d] = parent[d] /\ UNCHANGED <<result, fate, fin>>
      BY <2>4, <1>4
    <3>3. pc'[d] = pc[d] \/ (pc[d] = "run" /\ pc'[d] = "await")
      BY <2>2, <2>4
    <3> HIDE DEF Spawn, delivery, stopping
    <3> QED BY <3>1, <3>2, <3>3
  <2> QED BY <2>3, <2>4
<1>10. QueueInv'
    BY <1>3, <1>4, ChildrenAreTurns, QueueFrame
<1> QED BY <1>5, <1>7, <1>8, <1>9, <1>10 DEF Inv

LEMMA AcquireSlotStep ==
    ASSUME Inv, NEW c \in Children, AcquireSlot(c)
    PROVE  Inv'
<1> USE DEF AcquireSlot, Goto, SlotFree, tree, delivery, lock, stopping
<1> DEFINE q == parent[c]
<1>1. q \in Turns /\ c \in Turns /\ ~semAcquired[c]
    BY ChildrenAreTurns DEF Inv, TypeOK, SlotsExact
<1>2. \A p \in Turns : Holders(p)' = IF p = q THEN Holders(p) \cup {c} ELSE Holders(p)
    BY DEF Inv, TypeOK, Holders
<1>3. \A p \in Turns : sem'[p] = Cardinality(Holders(p)')
  <2> SUFFICES ASSUME NEW p \in Turns PROVE sem'[p] = Cardinality(Holders(p)')
    OBVIOUS
  <2>1. sem[p] = Cardinality(Holders(p)) /\ c \notin Holders(p)
    BY <1>1 DEF Inv, SlotsExact, Holders
  <2>2. IsFiniteSet(Holders(p))
    BY HoldersAreCounted
  <2>3. Cardinality(Holders(p) \cup {c}) = Cardinality(Holders(p)) + 1
    BY <2>1, <2>2, FS_AddElement
  <2>4. sem'[p] = IF p = q THEN sem[p] + 1 ELSE sem[p]
    BY <1>1, SlotTypes DEF Inv
  <2> QED BY <2>1, <2>3, <2>4, <1>2
<1>4. TypeOK'
  <2>1. sem' \in [Turns -> 0 .. MaxConcurrent]
    BY <1>1, SlotTypes, SubTurnAssumption DEF Inv
  <2>2. pc' \in [Turns -> States] /\ semAcquired' \in [Children -> BOOLEAN]
    BY <1>1, SlotTypes DEF Inv, States
  <2> QED BY <2>1, <2>2 DEF Inv, TypeOK, States
<1>5. pc'[c] = "check" /\ \A d \in Turns \ {c} : pc'[d] = pc[d]
    BY <1>1, SlotTypes DEF Inv
<1>6. SlotsExact'
  <2>1. \A d \in Children \ {c} : semAcquired'[d] = semAcquired[d]
    BY SlotTypes DEF Inv
  <2> QED BY <2>1, <1>3, <1>5, ChildrenAreTurns DEF Inv, SlotsExact, Holders
<1>7. TreeInv'
    BY <1>1, GotoKeepsTree
<1>8. ResultInv'
    BY <1>5, ChildrenAreTurns DEF Inv, ResultInv
<1>9. QueueInv'
    BY <1>5, ChildrenAreTurns, QueueFrame
<1> QED BY <1>4, <1>6, <1>7, <1>8, <1>9 DEF Inv

\* Steps of one turn that leave tree, slots and channels alone.
LEMMA MoveStep ==
    ASSUME Inv, NEW t \in Turns, NEW l,
           \/ pc[t] = "check" /\ l = "link"
           \/ pc[t] = "link" /\ l = "lock"
           \/ pc[t] = "lock" /\ l = "run"
           \/ pc[t] = "cleanup" /\ l = "select" /\ t \in Children /\ async[t],
           Goto(t, l),
           children' \in [Turns -> Seq(Children)],
           UNCHANGED <<tree, slots, delivery, lock, stopping, canceled>>
    PROVE  Inv'
<1> USE DEF Goto, tree, slots, delivery, lock, stopping
<1>1. pc'[t] = l /\ \A d \in Turns \ {t} : pc'[d] = pc[d]
    BY SlotTypes DEF Inv
<1>2. TypeOK'
  <2>1. pc' \in [Turns -> States]
    BY SlotTypes DEF Inv, States
  <2> QED BY <2>1 DEF Inv, TypeOK, States
<1>3. SlotsExact'
    BY <1>1, ChildrenAreTurns DEF Inv, SlotsExact
<1>4. TreeInv'
    BY GotoKeepsTree
<1>5. ResultInv'
    BY <1>1, ChildrenAreTurns DEF Inv, ResultInv
<1>6. QueueInv'
    BY <1>1, ChildrenAreTurns, QueueFrame
<1> QED BY <1>2, <1>3, <1>4, <1>5, <1>6 DEF Inv

\* A result nobody will read is reported as an orphan; the nil of a panic is not.
LEMMA OrphanStep ==
    ASSUME Inv, NEW c \in Children, pc[c] \in {"cleanup", "select"}, async[c],
           parent[c] = 0 \/ fin[parent[c]] # "no",
           Return(c), Orphan(c),
           UNCHANGED <<tree, children, pending, result, lock, stopping, canceled>>
    PROVE  Inv'
<1> USE DEF Orphan, tree, lock, stopping
<1>1. /\ SlotsExact' /\ TreeInv' /\ pc'[c] = "done"
      /\ \A d \in Turns \ {c} : pc'[d] = pc[d] \/ (pc[d] = "await" /\ pc'[d] = "run")
    BY ReturnKeeps
<1>2. /\ fate' \in [Children -> {"none", "sent", "consumed", "orphan"}]
      /\ fate[c] = "none"
      /\ fate'[c] = IF result[c] = "value" THEN "orphan" ELSE "none"
      /\ \A d \in Children \ {c} : fate'[d] = fate[d]
    BY DEF Inv, TypeOK, ResultInv
<1>3. TypeOK'
    BY <1>2, ReturnKeeps DEF Inv, TypeOK, States
<1>4. ResultInv'
    BY <1>1, <1>2, ChildrenAreTurns DEF Inv, ResultInv
<1>5. QueueInv'
  <2>1. \A p \in Turns : \A i \in DOMAIN pending[p] :
            pending[p][i] \in Children /\ pending[p][i] # c
    BY SMTT(20) DEF Inv, TypeOK, QueueInv
  <2> QED BY <2>1, <1>1, <1>2, ChildrenAreTurns DEF Inv, QueueInv
<1> QED BY <1>1, <1>3, <1>4, <1>5 DEF Inv

\* The slot is given back as soon as runTurn has returned.
LEMMA ReleaseSlotStep ==
    ASSUME Inv, NEW c \in Children, ReleaseSlot(c)
    PROVE  Inv'
<1> USE DEF ReleaseSlot, AfterRelease, tree, slots, delivery, lock, stopping
<1> DEFINE q == parent[c]
<1>1. q \in Turns /\ c \in Turns
    BY ChildrenAreTurns, SlotTypes DEF Inv
<1>2. pc'[c] = "cleanup" /\ \A d \in Turns \ {c} : pc'[d] = pc[d]
    BY <1>1, SlotTypes DEF Inv, Goto
<1>3. /\ semAcquired' = [semAcquired EXCEPT ![c] = FALSE]
      /\ sem' = [sem EXCEPT ![q] = @ - (IF semAcquired[c] THEN 1 ELSE 0)]
  <2>1. CASE semAcquired[c]
    BY <2>1
  <2>2. CASE ~semAcquired[c]
    BY <2>2, <1>1, SlotTypes DEF Inv
  <2> QED BY <2>1, <2>2
<1>4. /\ \A p \in Turns : sem'[p] = Cardinality(Holders(p)')
      /\ sem' \in [Turns -> 0 .. MaxConcurrent]
      /\ semAcquired' \in [Children -> BOOLEAN]
    BY <1>3, TokenReturns
<1>5. TypeOK'
  <2>1. pc' \in [Turns -> States]
    BY <1>1, SlotTypes DEF Inv, States, Goto
  <2> QED BY <2>1, <1>4 DEF Inv, TypeOK, States
<1>6. SlotsExact'
  <2>1. \A d \in Children \ {c} : semAcquired'[d] = semAcquired[d]
    BY <1>3, SlotTypes DEF Inv
  <2> QED BY <2>1, <1>2, <1>4, ChildrenAreTurns DEF Inv, SlotsExact, Holders
<1>7. TreeInv'
    BY <1>1, GotoKeepsTree
<1>8. ResultInv'
    BY <1>2, ChildrenAreTurns DEF Inv, ResultInv
<1>9. QueueInv'
    BY <1>2, ChildrenAreTurns, QueueFrame
<1> QED BY <1>5, <1>6, <1>7, <1>8, <1>9 DEF Inv

\* A result that is not taken, or that nobody waits for in the channel, is disposed of
\* as the call returns.
LEMMA DeliverStep ==
    ASSUME Inv, NEW c \in Children, Deliver(c)
    PROVE  Inv'
<1> USE DEF Deliver, Delivers, tree, slots, delivery, lock, stopping
<1>1. CASE ~async[c] /\ Return(c) /\ UNCHANGED fate
  <2>1. /\ SlotsExact' /\ TreeInv' /\ pc'[c] = "done"
        /\ \A d \in Turns \ {c} : pc'[d] = pc[d] \/ (pc[d] = "await" /\ pc'[d] = "run")
    BY <1>1, ReturnKeeps
  <2>2. TypeOK'
    BY <1>1, ReturnKeeps DEF Inv, TypeOK, States
  <2>3. ResultInv'
    BY <1>1, <2>1, ChildrenAreTurns DEF Inv, ResultInv
  <2>4. QueueInv'
    BY <1>1, <2>1, ChildrenAreTurns, QueueFrame
  <2> QED BY <2>1, <2>2, <2>3, <2>4 DEF Inv
<1>2. CASE async[c] /\ NoReader(parent[c]) /\ Return(c) /\ Orphan(c)
    BY <1>2, OrphanStep DEF NoReader
<1>3. CASE async[c] /\ ~NoReader(parent[c]) /\ Goto(c, "select") /\ UNCHANGED <<fate, slots>>
  <2>1. children' \in [Turns -> Seq(Children)]
    BY DEF Inv, TypeOK
  <2> QED BY <1>3, <2>1, MoveStep, ChildrenAreTurns
<1> QED BY <1>1, <1>2, <1>3

LEMMA SendFailsStep ==
    ASSUME Inv, NEW c \in Children, SendFails(c)
    PROVE  Inv'
<1>1. fin[parent[c]] # "no"
    BY DEF SendFails, ChannelClosed, Finished
<1>2. async[c]
    BY DEF SendFails, Inv, ResultInv
<1> QED BY <1>1, <1>2, OrphanStep DEF SendFails

\* The result enters the channel of the parent, behind the others.
LEMMA SendResultStep ==
    ASSUME Inv, NEW c \in Children, SendResult(c)
    PROVE  Inv'
<1> USE DEF SendResult, tree, lock, stopping
<1> DEFINE q == parent[c]
<1>1. /\ SlotsExact' /\ TreeInv' /\ pc'[c] = "done"
      /\ \A d \in Turns \ {c} : pc'[d] = pc[d] \/ (pc[d] = "await" /\ pc'[d] = "run")
    BY ReturnKeeps
<1>2. /\ async[c] /\ q \in Turns /\ c \in Turns /\ fate[c] = "none"
      /\ pending[q] \in Seq(Children) /\ Len(pending[q]) < ResultCap
    BY ChildrenAreTurns, SlotTypes DEF Inv, TypeOK, ResultInv
<1>3. /\ fate' \in [Children -> {"none", "sent", "consumed", "orphan"}]
      /\ fate'[c] = IF result[c] = "value" THEN "sent" ELSE "none"
      /\ \A d \in Children \ {c} : fate'[d] = fate[d]
    BY <1>2 DEF Inv, TypeOK
<1>4. \A p \in Turns : pending'[p] = IF p = q THEN Append(pending[p], c) ELSE pending[p]
    BY DEF Inv, TypeOK
<1>5. \A p \in Turns : \A i \in DOMAIN pending[p] :
          pending[p][i] \in Children /\ pending[p][i] # c
    BY SMTT(20) DEF Inv, TypeOK, QueueInv
<1>6. /\ DOMAIN pending'[q] = DOMAIN pending[q] \cup {Len(pending[q]) + 1}
      /\ Len(pending[q]) + 1 \notin DOMAIN pending[q]
      /\ pending'[q][Len(pending[q]) + 1] = c
      /\ \A i \in DOMAIN pending[q] : pending'[q][i] = pending[q][i]
  <2>1. pending'[q] = Append(pending[q], c)
    BY <1>2, <1>4
  <2>2. /\ DOMAIN Append(pending[q], c) = DOMAIN pending[q] \cup {Len(pending[q]) + 1}
        /\ Len(pending[q]) + 1 \notin DOMAIN pending[q]
        /\ Append(pending[q], c)[Len(pending[q]) + 1] = c
        /\ \A i \in DOMAIN pending[q] : Append(pending[q], c)[i] = pending[q][i]
    <3> DEFINE t == pending[q]
    <3>1. t \in Seq(Children)
      BY <1>2
    <3> HIDE DEF t
    <3>2. /\ DOMAIN Append(t, c) = DOMAIN t \cup {Len(t) + 1}
          /\ Len(t) + 1 \notin DOMAIN t
          /\ Append(t, c)[Len(t) + 1] = c
          /\ \A i \in DOMAIN t : Append(t, c)[i] = t[i]
      BY <3>1, AppendElements
    <3> QED BY <3>2 DEF t
  <2> QED BY <2>1, <2>2
<1>7. TypeOK'
  <2>1. /\ pending' \in [Turns -> Seq(Children)]
        /\ \A p \in Turns : Len(pending'[p]) <= ResultCap
    BY <1>2, <1>4, SubTurnAssumption DEF Inv, TypeOK
  <2>2. pc' \in [Turns -> States] /\ semAcquired' \in [Children -> BOOLEAN]
        /\ sem' \in [Turns -> 0 .. MaxConcurrent]
    BY ReturnKeeps
  <2> QED BY <2>1, <2>2, <1>3 DEF Inv, TypeOK, States
<1>8. ResultInv'
    BY <1>1, <1>2, <1>3, ChildrenAreTurns DEF Inv, ResultInv
<1>9. QueueInv'
  <2>1. ASSUME NEW p \in Turns, NEW i \in DOMAIN pending'[p]
        PROVE  /\ pc'[pending'[p][i]] = "done" /\ async'[pending'[p][i]]
               /\ parent'[pending'[p][i]] = p
               /\ result'[pending'[p][i]] = "value" => fate'[pending'[p][i]] = "sent"
    <3>1. CASE p = q /\ i = Len(pending[q]) + 1
      BY <3>1, <1>1, <1>2, <1>3, <1>6
    <3>2. CASE ~(p = q /\ i = Len(pending[q]) + 1)
      <4>1. i \in DOMAIN pending[p] /\ pending'[p][i] = pending[p][i]
        BY <3>2, <2>1, <1>4, <1>6
      <4>2. pending[p][i] \in Children \ {c}
        BY <4>1, <1>5
      <4>3. pc[pending[p][i]] = "done" /\ async[pending[p][i]] /\ parent[pending[p][i]] = p
            /\ (result[pending[p][i]] = "value" => fate[pending[p][i]] = "sent")
        BY <4>1 DEF Inv, QueueInv
      <4> QED BY <4>1, <4>2, <4>3, <1>1, <1>3, ChildrenAreTurns
    <3> QED BY <3>1, <3>2
  <2>2. ASSUME NEW p \in Turns, NEW i \in DOMAIN pending'[p], NEW j \in DOMAIN pending'[p],
               pending'[p][i] = pending'[p][j]
        PROVE  i = j
    <3>1. CASE p = q
      BY <3>1, <2>2, <1>5, <1>6 DEF Inv, QueueInv
    <3>2. CASE p # q
      BY <3>2, <2>2, <1>4 DEF Inv, QueueInv
    <3> QED BY <3>1, <3>2
  <2>3. ASSUME NEW d \in Children, fate'[d] = "sent"
        PROVE  \E i \in DOMAIN pending'[parent'[d]] : pending'[parent'[d]][i] = d
    <3>1. CASE d = c
      BY <3>1, <1>6
    <3>2. CASE d # c
      <4>1. PICK i \in DOMAIN pending[parent[d]] : pending[parent[d]][i] = d
        BY <3>2, <2>3, <1>3 DEF Inv, QueueInv
      <4>2. parent[d] \in Turns
        BY SlotTypes DEF Inv
      <4>3. i \in DOMAIN pending'[parent[d]] /\ pending'[parent[d]][i] = d
        BY <4>1, <4>2, <1>4, <1>6
      <4> QED BY <4>3
    <3> QED BY <3>1, <3>2
  <2> QED BY <2>1, <2>2, <2>3 DEF QueueInv
<1> QED BY <1>1, <1>7, <1>8, <1>9 DEF Inv

-----------------------------------------------------------------------------
(* The steps of runTurn.                                                   *)

\* A turn takes the first result out of its channel.
LEMMA PollStep ==
    ASSUME Inv, NEW t \in Turns, Poll(t)
    PROVE  Inv'
<1> USE DEF Poll, tree, slots, lock, stopping
<1> DEFINE c == Head(pending[t])
<1>1. pending[t] \in Seq(Children) /\ Len(pending[t]) \in Nat \ {0}
    BY DEF Inv, TypeOK
<1>2. c \in Children /\ c = pending[t][1] /\ 1 \in DOMAIN pending[t]
    BY <1>1
<1>3. pc[c] = "done" /\ async[c] /\ parent[c] = t /\ (result[c] = "value" => fate[c] = "sent")
    BY <1>2 DEF Inv, QueueInv
<1>4. /\ fate' \in [Children -> {"none", "sent", "consumed", "orphan"}]
      /\ fate'[c] = IF result[c] = "value" THEN "consumed" ELSE fate[c]
      /\ \A d \in Children \ {c} : fate'[d] = fate[d]
    BY <1>2 DEF Inv, TypeOK
<1>5. /\ \A p \in Turns \ {t} : pending'[p] = pending[p]
      /\ pending'[t] = Tail(pending[t])
    BY DEF Inv, TypeOK
<1>6. /\ \A i \in DOMAIN pending'[t] :
            i + 1 \in DOMAIN pending[t] /\ pending'[t][i] = pending[t][i + 1] /\ i \in Nat \ {0}
      /\ \A i \in DOMAIN pending[t] : i # 1 => i - 1 \in DOMAIN pending'[t]
      /\ \A i \in DOMAIN pending[t] : i \in Nat
  <2> DEFINE s == pending[t]
  <2>1. s \in Seq(Children) /\ s # <<>>
    BY <1>1
  <2> HIDE DEF s
  <2>2. /\ \A i \in DOMAIN Tail(s) :
              i + 1 \in DOMAIN s /\ Tail(s)[i] = s[i + 1] /\ i \in Nat \ {0}
        /\ \A i \in DOMAIN s : i # 1 => i - 1 \in DOMAIN Tail(s)
        /\ \A i \in DOMAIN s : i \in Nat
    BY <2>1, TailElements
  <2> QED BY <2>2, <1>5 DEF s
<1>7. TypeOK'
  <2>1. /\ pending' \in [Turns -> Seq(Children)]
        /\ \A p \in Turns : Len(pending'[p]) <= ResultCap
    BY SMTT(20), <1>1, <1>5, SubTurnAssumption DEF Inv, TypeOK
  <2> QED BY <2>1, <1>4 DEF Inv, TypeOK
<1>8. SlotsExact' /\ TreeInv'
    BY DEF Inv, SlotsExact, TreeInv, Waiting
<1>9. ResultInv'
    BY <1>3, <1>4 DEF Inv, ResultInv
<1>10. QueueInv'
  <2>1. \A i \in DOMAIN pending'[t] : pending'[t][i] \in Children /\ pending'[t][i] # c
    BY <1>1, <1>2, <1>6 DEF Inv, QueueInv
  <2>2. ASSUME NEW p \in Turns, NEW i \in DOMAIN pending'[p]
        PROVE  /\ pc'[pending'[p][i]] = "done" /\ async'[pending'[p][i]]
               /\ parent'[pending'[p][i]] = p
               /\ result'[pending'[p][i]] = "value" => fate'[pending'[p][i]] = "sent"
    <3>1. pending'[p][i] \in Children \ {c}
      <4>1. CASE p = t
        BY <4>1, <2>1, <2>2
      <4>2. CASE p # t
        <5>1. pending'[p] = pending[p] /\ pending[p] \in Seq(Children)
          BY <4>2, <1>5 DEF Inv, TypeOK
        <5> QED BY <4>2, <5>1, <2>2, <1>3 DEF Inv, QueueInv
      <4> QED BY <4>1, <4>2
    <3>2. \E j \in DOMAIN pending[p] : pending[p][j] = pending'[p][i]
      BY <2>2, <1>5, <1>6
    <3>3. /\ pc[pending'[p][i]] = "done" /\ async[pending'[p][i]]
          /\ parent[pending'[p][i]] = p
          /\ result[pending'[p][i]] = "value" => fate[pending'[p][i]] = "sent"
      BY <3>2 DEF Inv, QueueInv
    <3> QED BY <3>1, <3>3, <1>4
  <2>3. ASSUME NEW p \in Turns, NEW i \in DOMAIN pending'[p], NEW j \in DOMAIN pending'[p],
               pending'[p][i] = pending'[p][j]
        PROVE  i = j
    <3>1. CASE p = t
      <4>1. pending[t][i + 1] = pending[t][j + 1] /\ i + 1 \in DOMAIN pending[t]
            /\ j + 1 \in DOMAIN pending[t] /\ i \in Nat /\ j \in Nat
        BY <3>1, <2>3, <1>6
      <4>2. i + 1 = j + 1
        BY <4>1 DEF Inv, QueueInv
      <4> QED BY <4>1, <4>2
    <3>2. CASE p # t
      BY <3>2, <2>3, <1>5 DEF Inv, QueueInv
    <3> QED BY <3>1, <3>2
  <2>4. ASSUME NEW d \in Children, fate'[d] = "sent"
        PROVE  \E i \in DOMAIN pending'[parent'[d]] : pending'[parent'[d]][i] = d
    <3>1. d # c /\ fate[d] = "sent" /\ parent[d] \in Turns
      BY <2>4, <1>3, <1>4, SlotTypes DEF Inv, ResultInv
    <3>2. PICK i \in DOMAIN pending[parent[d]] : pending[parent[d]][i] = d
      BY <3>1 DEF Inv, QueueInv
    <3>3. CASE parent[d] = t
      <4>1. i # 1 /\ i - 1 \in DOMAIN pending'[t] /\ i \in Nat
        BY <3>1, <3>2, <3>3, <1>2, <1>6
      <4>2. pending'[t][i - 1] = d
        BY <4>1, <3>2, <3>3, <1>6
      <4> QED BY <4>1, <4>2, <3>3
    <3>4. CASE parent[d] # t
      BY <3>1, <3>2, <3>4, <1>5
    <3> QED BY <3>3, <3>4
  <2> QED BY <2>2, <2>3, <2>4 DEF QueueInv
<1> QED BY <1>7, <1>8, <1>9, <1>10 DEF Inv

\* runTurn returns or panics: there is a result.
LEMMA RunEndsStep ==
    ASSUME Inv, NEW t \in Turns, RunEnds(t)
    PROVE  Inv'
<1> USE DEF RunEnds, tree, slots, lock, stopping
<1>1. PICK l \in {"done", "cleanup", "ran"} : Goto(t, l) /\ (l = "done" <=> t = 0)
    BY ChildrenAreTurns
<1>2. pc'[t] = l /\ \A d \in Turns \ {t} : pc'[d] = pc[d]
    BY <1>1, SlotTypes DEF Inv, Goto
<1>3. /\ result' \in [Children -> {"none", "value", "nil"}]
      /\ \A d \in Children \ {t} : result'[d] = result[d]
      /\ t # 0 => result'[t] = IF l = "cleanup" THEN "nil" ELSE "value"
  <2>1. CASE t = 0
    BY <2>1, ChildrenAreTurns DEF Inv, TypeOK
  <2>2. CASE t # 0
    <3>1. PICK panics \in BOOLEAN :
              /\ result' = [result EXCEPT ![t] = IF panics THEN "nil" ELSE "value"]
              /\ Goto(t, IF panics THEN "cleanup" ELSE "ran")
      BY <2>2
    <3>2. l = IF panics THEN "cleanup" ELSE "ran"
      BY <3>1, <1>2, SlotTypes DEF Inv, Goto
    <3>3. t \in Children
      BY <2>2, SubTurnAssumption DEF Turns, Children
    <3> QED BY <3>1, <3>2, <3>3 DEF Inv, TypeOK
  <2> QED BY <2>1, <2>2
<1>4. TypeOK'
  <2>1. pc' \in [Turns -> States]
    BY <1>1, SlotTypes DEF Inv, States, Goto
  <2> QED BY <2>1, <1>3 DEF Inv, TypeOK, States
<1>5. SlotsExact'
    BY <1>1, <1>2, ChildrenAreTurns DEF Inv, SlotsExact
<1>6. TreeInv'
    BY <1>1, GotoKeepsTree
<1>7. ResultInv'
    BY <1>1, <1>2, <1>3, ChildrenAreTurns DEF Inv, ResultInv
<1>8. QueueInv'
  <2>1. \A p \in Turns : \A i \in DOMAIN pending[p] :
            pending[p][i] \in Children /\ pending[p][i] # t
    BY DEF Inv, TypeOK, QueueInv
  <2> QED BY <2>1, <1>2, <1>3, ChildrenAreTurns DEF Inv, QueueInv
<1> QED BY <1>4, <1>5, <1>6, <1>7, <1>8 DEF Inv

-----------------------------------------------------------------------------
(* The steps of an abort and of a model switch.                            *)

LEMMA HardAbortStep ==
    ASSUME Inv, NEW t \in AbortTargets, HardAbort(t)
    PROVE  Inv'
<1> USE DEF HardAbort, tree, slots, delivery, lock
<1>1. t \in Turns
    BY SubTurnAssumption
<1>2. TypeOK'
    BY SMTT(20), <1>1, SubTurnAssumption DEF Inv, TypeOK
<1>3. SlotsExact' /\ TreeInv' /\ ResultInv' /\ QueueInv'
    BY DEF Inv, SlotsExact, TreeInv, Waiting, ResultInv, QueueInv
<1> QED BY <1>2, <1>3 DEF Inv

LEMMA FinishStep ==
    ASSUME Inv, Finish
    PROVE  Inv'
<1> USE DEF Finish, tree, slots, delivery, lock
<1>1. Head(abort) \in Turns
    BY DEF Inv, TypeOK
<1>2. /\ fin' \in [Turns -> {"no", "marked", "closed", "signalled"}]
      /\ \A t \in Turns : fin[t] # "no" => fin'[t] # "no"
    BY <1>1 DEF Inv, TypeOK
<1>3. TypeOK'
    BY <1>2 DEF Inv, TypeOK
<1>4. SlotsExact' /\ TreeInv' /\ QueueInv'
    BY DEF Inv, SlotsExact, TreeInv, Waiting, QueueInv
<1>5. ResultInv'
    BY <1>2, SlotTypes DEF Inv, ResultInv
<1> QED BY <1>3, <1>4, <1>5 DEF Inv

LEMMA FinishCascadeStep ==
    ASSUME Inv, FinishCascade
    PROVE  Inv'
<1> USE DEF FinishCascade, tree, slots, delivery, lock
<1>1. Head(abort) \in Turns /\ Tail(abort) \in Seq(Turns)
    BY DEF Inv, TypeOK
<1> DEFINE rest == Cascade(Head(abort)) \o Tail(abort)
<1>2. rest \in Seq(Turns)
  <2>1. Cascade(Head(abort)) \in Seq(Turns)
    BY <1>1, ChildrenAreTurns DEF Inv, TypeOK, Cascade
  <2> QED BY <1>1, <2>1
<1>3. abort' \in Seq(Turns)
  <2>1. CASE abort' = <<>>
    BY <2>1
  <2>2. CASE \E i \in DOMAIN rest : abort' = SubSeq(rest, i, Len(rest))
    <3> HIDE DEF rest
    <3> QED BY <2>2, <1>2
  <2> QED BY <2>1, <2>2
<1>4. TypeOK'
    BY <1>1, <1>3 DEF Inv, TypeOK
<1>5. SlotsExact' /\ TreeInv' /\ ResultInv' /\ QueueInv'
    BY DEF Inv, SlotsExact, TreeInv, Waiting, ResultInv, QueueInv
<1> QED BY <1>4, <1>5 DEF Inv

LEMMA WriterStep ==
    ASSUME Inv, WriterWaits \/ WriterSwitches
    PROVE  Inv'
<1> USE DEF WriterWaits, WriterSwitches, tree, slots, delivery, stopping
<1>1. TypeOK'
    BY SubTurnAssumption DEF Inv, TypeOK
<1>2. SlotsExact' /\ TreeInv' /\ ResultInv' /\ QueueInv'
    BY DEF Inv, SlotsExact, TreeInv, Waiting, ResultInv, QueueInv
<1> QED BY <1>1, <1>2 DEF Inv

LEMMA StutterStep ==
    ASSUME Inv, UNCHANGED vars
    PROVE  Inv'
<1> USE DEF vars, tree, slots, delivery, lock, stopping
<1>1. TypeOK'
    BY DEF Inv, TypeOK
<1>2. SlotsExact' /\ TreeInv' /\ ResultInv' /\ QueueInv'
    BY DEF Inv, SlotsExact, TreeInv, Waiting, ResultInv, QueueInv
<1> QED BY <1>1, <1>2 DEF Inv

-----------------------------------------------------------------------------
LEMMA ChildStepKeeps ==
    ASSUME Inv, NEW c \in Children, ChildStep(c)
    PROVE  Inv'
<1>1. c \in Turns
    BY ChildrenAreTurns
<1>2. CASE AcquireSlot(c)
    BY <1>2, AcquireSlotStep
<1>3. CASE NoSlot(c)
    BY <1>3, EarlyReturnStep DEF NoSlot
<1>4. CASE Check(c)
  <2>1. CASE Goto(c, "link") /\ UNCHANGED slots
    <3>1. children' \in [Turns -> Seq(Children)]
      BY <1>4 DEF Check, Inv, TypeOK
    <3> QED BY <1>1, <1>4, <2>1, <3>1, MoveStep DEF Check
  <2>2. CASE Return(c)
    BY <1>4, <2>2, EarlyReturnStep DEF Check
  <2> QED BY <1>4, <2>1, <2>2 DEF Check
<1>5. CASE Link(c)
  <2>1. children' \in [Turns -> Seq(Children)]
    BY <1>5, SlotTypes DEF Link, Inv, TypeOK
  <2> QED BY <1>1, <1>5, <2>1, MoveStep DEF Link
<1>6. CASE ReleaseSlot(c)
    BY <1>6, ReleaseSlotStep
<1>7. CASE Deliver(c)
    BY <1>7, DeliverStep
<1>8. CASE SendResult(c)
    BY <1>8, SendResultStep
<1>9. CASE SendFails(c)
    BY <1>9, SendFailsStep
<1> QED BY <1>2, <1>3, <1>4, <1>5, <1>6, <1>7, <1>8, <1>9 DEF ChildStep

LEMMA NextInv == Inv /\ [Next]_vars => Inv'
<1> SUFFICES ASSUME Inv, [Next]_vars PROVE Inv'
    OBVIOUS
<1>1. ASSUME NEW c \in Children, ChildStep(c) PROVE Inv'
    BY <1>1, ChildStepKeeps
<1>2. ASSUME NEW t \in Turns, LockModel(t) PROVE Inv'
  <2>1. children' \in [Turns -> Seq(Children)]
    BY <1>2 DEF LockModel, Inv, TypeOK
  <2> QED BY <1>2, <2>1, MoveStep DEF LockModel
<1>3. ASSUME NEW t \in Turns, RunEnds(t) PROVE Inv'
    BY <1>3, RunEndsStep
<1>4. ASSUME NEW t \in Turns, Poll(t) PROVE Inv'
    BY <1>4, PollStep
<1>5. ASSUME NEW t \in Turns, NEW c \in Children, Spawn(t, c) PROVE Inv'
    BY <1>5, SpawnStep
<1>6. ASSUME NEW t \in AbortTargets, HardAbort(t) PROVE Inv'
    BY <1>6, HardAbortStep
<1>7. ASSUME Finish \/ FinishCascade PROVE Inv'
    BY <1>7, FinishStep, FinishCascadeStep
<1>8. ASSUME WriterWaits \/ WriterSwitches PROVE Inv'
    BY <1>8, WriterStep
<1>9. ASSUME UNCHANGED vars PROVE Inv'
    BY <1>9, StutterStep
<1> QED BY <1>1, <1>2, <1>3, <1>4, <1>5, <1>6, <1>7, <1>8, <1>9 DEF Next, TurnStep

LEMMA Invariance == Spec => []Inv
BY InitInv, NextInv, PTL DEF Spec

-----------------------------------------------------------------------------
(* Theorems.                                                               *)

\* The variables of sub-turns keep their types, and neither a semaphore nor a channel of
\* results (subturn.go:292, turn_state.go) exceeds its capacity.
THEOREM TypeCorrect == Spec => []TypeOK
<1>1. Inv => TypeOK
    BY DEF Inv
<1> QED BY Invariance, <1>1, PTL

\* The semaphore of a turn has exactly the tokens of the children that hold one, and a
\* sub-turn that has returned holds none, however it ended (subturn.go:292).
THEOREM SlotsAreExact == Spec => []SlotsExact
<1>1. Inv => SlotsExact
    BY DEF Inv
<1> QED BY Invariance, <1>1, PTL

\* The result of a background sub-turn (deliverSubTurnResult, subturn.go) has exactly one
\* fate: it waits in its parent's channel, was taken from it, or was reported as an orphan.
THEOREM ResultsHaveOneFate == Spec => []ResultsAccounted
<1>1. ASSUME Inv PROVE ResultsAccounted
  <2> SUFFICES ASSUME NEW c \in Children
               PROVE  LET waiting == {p \in Turns : \E i \in DOMAIN pending[p] : pending[p][i] = c}
                      IN  /\ pc[c] = "done" /\ async[c] /\ result[c] = "value"
                                => fate[c] \in {"sent", "consumed", "orphan"}
                          /\ result[c] = "value" => (fate[c] = "sent" <=> waiting = {parent[c]})
                          /\ fate[c] # "sent" /\ result[c] = "value" => waiting = {}
                          /\ fate[c] = "orphan" => parent[c] = 0 \/ fin[parent[c]] # "no"
                          /\ ~async[c] => fate[c] = "none" /\ waiting = {}
    BY DEF ResultsAccounted
  <2> DEFINE waiting == {p \in Turns : \E i \in DOMAIN pending[p] : pending[p][i] = c}
  <2>1. fate[c] \in {"none", "sent", "consumed", "orphan"} /\ parent[c] \in Turns
    BY <1>1 DEF Inv, TypeOK
  <2>2. \A p \in waiting :
            parent[c] = p /\ async[c] /\ (result[c] = "value" => fate[c] = "sent")
    BY <1>1 DEF Inv, QueueInv
  <2>3. fate[c] = "sent" => parent[c] \in waiting
    BY <1>1, <2>1 DEF Inv, QueueInv
  <2>4. result[c] = "value" => (fate[c] = "sent" <=> waiting = {parent[c]})
    BY <2>2, <2>3
  <2>5. fate[c] # "sent" /\ result[c] = "value" => waiting = {}
    BY <2>2
  <2>6. /\ pc[c] = "done" /\ async[c] /\ result[c] = "value" => fate[c] # "none"
        /\ fate[c] = "orphan" => parent[c] = 0 \/ fin[parent[c]] # "no"
        /\ ~async[c] => fate[c] = "none"
    BY <1>1 DEF Inv, ResultInv
  <2>7. ~async[c] => waiting = {}
    BY <2>2
  <2> QED BY <2>1, <2>4, <2>5, <2>6, <2>7
<1> QED BY Invariance, <1>1, PTL

\* The fate of a background result (deliverSubTurnResult, subturn.go) is decided once:
\* it is sent or reported as its sub-turn returns, and only a sent one is consumed.
THEOREM FateDecidedOnce == Spec => FateIsFinal
<1> DEFINE Moves(c) == \/ fate'[c] = fate[c]
                       \/ fate[c] = "none" /\ fate'[c] \in {"sent", "orphan"}
                       \/ fate[c] = "sent" /\ fate'[c] = "consumed"
           A == \A c \in Children : Moves(c)
<1>1. Inv /\ [Next]_vars => [A]_vars
  <2> SUFFICES ASSUME Inv, Next PROVE A
    OBVIOUS
  <2>1. fate \in [Children -> {"none", "sent", "consumed", "orphan"}]
    BY DEF Inv, TypeOK
  <2>2. fate' = fate => A
    OBVIOUS
  <2>3. ASSUME NEW d \in Children, ChildStep(d)
        PROVE  A
    <3>1. pc[d] # "done" => fate[d] = "none"
        BY DEF Inv, ResultInv
    <3>2. CASE fate' = [fate EXCEPT ![d] = IF result[d] = "value" THEN "orphan" ELSE @]
               /\ pc[d] # "done"
        BY <2>1, <3>1, <3>2
    <3>3. CASE fate' = [fate EXCEPT ![d] = IF result[d] = "value" THEN "sent" ELSE @]
               /\ pc[d] # "done"
        BY <2>1, <3>1, <3>3
    <3>4. CASE Deliver(d)
        BY <2>2, <3>2, <3>4 DEF Deliver, Orphan
    <3>5. CASE SendResult(d)
        BY <3>3, <3>5 DEF SendResult
    <3>6. CASE SendFails(d)
        BY <3>2, <3>6 DEF SendFails, Orphan
    <3> QED
        BY <2>2, <2>3, <3>4, <3>5, <3>6 DEF ChildStep, AcquireSlot, NoSlot, Check, Link,
              ReleaseSlot, delivery
  <2>4. ASSUME NEW t \in Turns, Poll(t)
        PROVE  A
    <3> DEFINE c == Head(pending[t])
    <3>1. pending[t] \in Seq(Children) /\ pending[t] # <<>>
        BY <2>4 DEF Poll, Inv, TypeOK
    <3>2. 1 \in DOMAIN pending[t] /\ c = pending[t][1] /\ c \in Children
        BY <3>1
    <3>3. result[c] = "value" => fate[c] = "sent"
        BY <3>2 DEF Inv, QueueInv
    <3>4. fate' = [fate EXCEPT ![c] = IF result[c] = "value" THEN "consumed" ELSE @]
        BY <2>4 DEF Poll
    <3> HIDE DEF c
    <3> QED
        BY <2>1, <3>2, <3>3, <3>4
  <2>5. ASSUME NEW t \in Turns, TurnStep(t) \/ \E c \in Children : Spawn(t, c)
        PROVE  A
    BY <2>2, <2>5 DEF TurnStep, LockModel, RunEnds, Spawn, delivery
  <2>6. ASSUME \/ \E t \in AbortTargets : HardAbort(t)
               \/ Finish \/ FinishCascade \/ WriterWaits \/ WriterSwitches
        PROVE  A
    BY <2>2, <2>6 DEF HardAbort, Finish, FinishCascade, WriterWaits, WriterSwitches, delivery
  <2> QED BY <2>3, <2>4, <2>5, <2>6 DEF Next
<1> QED BY <1>1, Invariance, PTL DEF Spec, FateIsFinal
=============================================================================
