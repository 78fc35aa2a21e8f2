------------------------- MODULE CoordinatorEffects -------------------------
(***************************************************************************)
(* What the tools have really done, against what the tables say of it.     *)
(*                                                                         *)
(* A tool acts when a request reaches it, which may be long after the      *)
(* process that sent it has died.  A pivot's effect can still come while   *)
(* an attempt at it is unresolved; such an attempt holds its scope where   *)
(* no try can be cancelled any more (NoReturn), or the status tool has     *)
(* denied the key for good.  A process leaves pivot-inflight towards open  *)
(* only when it knows one or the other (KnowsPivot).                       *)
(*                                                                         *)
(* Idempotency keys come from the submitted document, and admission does   *)
(* not compare them across vertices.  The theorems say which keys must not *)
(* coincide: a pivot's with any other (PivotKeysApart), and for the undo   *)
(* of a scope those of tries in different scopes (KeysPerScope).           *)
(***************************************************************************)
EXTENDS CoordinatorLedger

PivotKeysApart == \A p \in Pivot, v \in Vertex : KeyOf[p] = KeyOf[v] => v = p

\* No vertex of another scope has the key of v.
Local(v) == \A u \in Vertex : KeyOf[u] = KeyOf[v] => ScopeOf[u] = ScopeOf[v]

KeysPerScope == \A t \in Try : Local(t)
-----------------------------------------------------------------------------
(* What the effects have to do with the tables                             *)

\* A try that owns its bracket and is not being undone is held at its tool.
SealedHeld == \A v \in Try : BracketOwner(v) = v /\ member[v] = "none" => effect[KeyOf[v]] \in Held

\* Only a pivot is ever denied, and a pivot is neither confirmed nor undone.
PivotOutcomes ==
    /\ \A k \in Key : effect[k] = "void" => \E p \in Pivot : KeyOf[p] = k
    /\ \A p \in Pivot : effect[KeyOf[p]] \in {"none", "done", "void"}

\* A denied pivot is not admitted again.
DeniedStays ==
    \A p \in Pivot : effect[KeyOf[p]] = "void" =>
        ScopeOf[p] \in Scope /\ (ScopeOf[p] \in fenced \/ state[ScopeOf[p]] \in {"pivot-inflight", "suspended"})

\* A scope is past its pivot only when the pivot happened.
PassedHappened ==
    \A p \in Pivot : ScopeOf[p] \in Scope /\ state[ScopeOf[p]] \in {"pivot-passed", "committed"} =>
        effect[KeyOf[p]] = "done"

\* txn/confirm follows the tool, and txn/scope committed follows every txn/confirm.
ConfirmsDone ==
    /\ \A k \in Key : bracket[k].state = "confirmed" => effect[k] = "confirmed"
    /\ \A s \in Scope : state[s] = "committed" =>
        \A v \in Tcc \cap Members(s) : bracket[KeyOf[v]].state = "confirmed"

\* No try of the scope can be cancelled, now or later, unless its pivot is proven absent.
NoReturn(s) ==
    /\ state[s] \in {"pivot-inflight", "pivot-passed", "committed", "suspended"}
    /\ CancelMembers(s) = {}
    /\ \A v \in Required(s) : BracketOwner(v) = v

\* A pivot that happened, or that may still happen, holds its scope there.
PivotHolds ==
    /\ \A p \in Pivot : effect[KeyOf[p]] = "done" => ScopeOf[p] \in Scope /\ NoReturn(ScopeOf[p])
    /\ \A a \in attempts : a.op = "pivot" => NoReturn(ScopeOf[a.vertex]) \/ effect[KeyOf[a.vertex]] = "void"

\* A confirmed effect belongs to the owner of its bracket, in a scope past its pivot.
ConfirmedOwned ==
    \A k \in Key : effect[k] = "confirmed" =>
        LET u == bracket[k].vertex
        IN  u # None /\ member[u] = "none" /\ state[ScopeOf[u]] \in {"pivot-passed", "committed", "suspended"}
-----------------------------------------------------------------------------
(* What a process knows of the effects                                     *)

Heard(w, op, res) == At(w, "answered") /\ job[w].op = op /\ job[w].res = res

\* processRegular, with the tool's answer and before RecordTry.
KnowsTry(w) ==
    Heard(w, "call", "succeeded") /\ job[w].vertex \in Try /\ BracketOwner(job[w].vertex) = None =>
        effect[KeyOf[job[w].vertex]] \in Held

\* Nothing is on its way that could still bring the pivot about.
NoPivotAttempt(p) == \A a \in attempts : ~(a.op = "pivot" /\ a.vertex = p)

\* processPivot, from admission to the passed or reopened scope.
KnowsPivot(w) ==
    LET p == job[w].vertex
        e == effect[KeyOf[p]]
    IN  /\ InPivot(w) => \A a \in attempts : a.op = "pivot" /\ a.vertex = p => a.holder = w
        /\ InCall(w, {"pivot"}) \/ (InCall(w, {"status"}) /\ ~At(w, "answered")) => e # "void"
        /\ Heard(w, "pivot", "succeeded") \/ Heard(w, "status", "occurred") \/ At(w, "resolve-occurred") => e = "done"
        /\ Heard(w, "status", "absent") \/ At(w, "resolve-absent") => e = "void"
        /\ Heard(w, "pivot", "failed") => e # "done" /\ NoPivotAttempt(p)
        /\ At(w, "reopen") => e = "void" \/ (e # "done" /\ NoPivotAttempt(p))

\* confirmScope: the bracket just confirmed, and those that are not on its list any more.
KnowsConfirm(w) ==
    /\ Heard(w, "confirm", "succeeded") => effect[KeyOf[job[w].target]] = "confirmed"
    /\ InConfirm(w) => \A v \in Tcc \cap Members(job[w].scope) :
                          v \in job[w].todo \/ bracket[KeyOf[v]].state = "confirmed"

EInv ==
    /\ SealedHeld /\ PivotOutcomes /\ DeniedStays /\ PassedHappened /\ ConfirmsDone /\ PivotHolds /\ ConfirmedOwned
    /\ \A w \in Worker : KnowsTry(w) /\ KnowsPivot(w) /\ KnowsConfirm(w)

\* A member completed is undone at its tool, and a process completes it knowing so, unless
\* another scope uses the key.
DoneIsUndone == \A v \in Vertex : member[v] = "done" /\ Local(v) => effect[KeyOf[v]] = "undone"

KnowsUndone(w) ==
    Heard(w, "inverse", "succeeded") /\ Local(job[w].target) => effect[KeyOf[job[w].target]] = "undone"

UInv == DoneIsUndone /\ \A w \in Worker : KnowsUndone(w)
-----------------------------------------------------------------------------
(* How one effect moves                                                    *)

\* An effect changes when an attempt lands on its key, or when a status tool denies the pivot.
EffectMove(w, k) ==
    \/ effect'[k] = effect[k]
    \/ /\ UNCHANGED <<state, bracket, member>>
       /\ \E a \in attempts :
            /\ KeyOf[a.vertex] = k
            /\ \/ a.op \in {"call", "pivot"} /\ effect[k] \in {"none", "undone"} /\ effect'[k] = "done"
               \/ a.op = "confirm" /\ effect[k] = "done" /\ effect'[k] = "confirmed"
               \/ a.op = "inverse" /\ effect[k] \in {"none", "done"} /\ effect'[k] = "undone"
    \/ /\ Denies(w) /\ InPivot(w) /\ k = KeyOf[job[w].vertex] /\ job[w].vertex \in Pivot
       /\ effect[k] # "done" /\ effect'[k] = "void"

\* What the tools do (Applied) and what a denial does, one key at a time.
LEMMA EffectMoves ==
  ASSUME LInv, NEW w, Acts(w), NEW k \in Key
  PROVE  EffectMove(w, k)
<1>t. effect \in [Key -> Effects]
  BY LedgerTyped DEF LInv, IInv
<1>1. CASE Lands(w)
  <2>1. PICK a \in attempts : effect' = [effect EXCEPT ![KeyOf[a.vertex]] = Applied(a.op, @)]
    BY <1>1, Zenon DEF Lands
  <2>2. CASE KeyOf[a.vertex] = k
    <3>1. effect'[k] = Applied(a.op, effect[k])
      BY <1>t, <2>1, <2>2
    <3>2. a.op \in Operations
      BY LedgerTyped DEF LInv, IInv, Attempts
    <3>3. \/ effect'[k] = effect[k]
          \/ a.op \in {"call", "pivot"} /\ effect[k] \in {"none", "undone"} /\ effect'[k] = "done"
          \/ a.op = "confirm" /\ effect[k] = "done" /\ effect'[k] = "confirmed"
          \/ a.op = "inverse" /\ effect[k] \in {"none", "done"} /\ effect'[k] = "undone"
      BY <3>1, <3>2, ZenonT(60) DEF Applied, Operations
    <3> QED BY <1>1, <2>2, <3>3 DEF EffectMove, Lands
  <2>3. CASE KeyOf[a.vertex] # k
    BY <1>t, <2>1, <2>3, ZenonT(60) DEF EffectMove
  <2> QED BY <2>2, <2>3
<1>2. CASE Denies(w)
  <2>1. /\ w \in Worker /\ At(w, "calling") /\ job[w].op = "status"
        /\ effect[KeyOf[job[w].target]] # "done" /\ effect' = [effect EXCEPT ![KeyOf[job[w].target]] = "void"]
    BY <1>2 DEF Denies
  <2>2. InPivot(w)
    BY <2>1 DEF InPivot, InCall, CallPcs, At
  <2>3. job[w].target = job[w].vertex /\ job[w].vertex \in Pivot
    BY <2>1, <2>2 DEF LInv, Stands
  <2>4. effect'[k] = IF k = KeyOf[job[w].vertex] THEN "void" ELSE effect[k]
    BY <1>t, <2>1, <2>3
  <2> QED BY <1>2, <2>1, <2>2, <2>3, <2>4, ZenonT(60) DEF EffectMove
<1> QED BY <1>1, <1>2 DEF EffectMove, Acts, Stays, Starts, SealsTry, ConfirmsTry, MovesRow, Cancels, CompletesMember, CompletesCancel

\* With keys apart, what concerns a pivot's key concerns the pivot.
LEMMA PivotKey ==
  ASSUME LInv, PivotKeysApart, NEW p \in Pivot, NEW a \in attempts, KeyOf[a.vertex] = KeyOf[p]
  PROVE  a.vertex = p /\ a.op \in {"pivot", "status"}
<1>t. a.vertex \in Vertex /\ a.op \in Operations /\ p \in Vertex /\ (a.vertex \in Try => a.vertex \notin Pivot)
  BY LedgerTyped DEF LInv, IInv, Attempts
<1>1. a.vertex = p
  BY <1>t DEF PivotKeysApart
<1>2. a.op # "call" /\ a.op # "confirm" /\ a.op # "inverse"
  BY <1>1, <1>t, ZenonT(60) DEF LInv, AttemptsFit, MembersOwn, Try
<1> QED BY <1>1, <1>2, <1>t DEF Operations

\* A pivot's effect comes from an attempt at it, and its denial from the process inside the scope;
\* both are for good.
LEMMA PivotMoves ==
  ASSUME LInv, PivotKeysApart, PivotOutcomes, NEW w, Acts(w), NEW p \in Pivot
  PROVE  /\ effect[KeyOf[p]] \in {"done", "void"} => effect'[KeyOf[p]] = effect[KeyOf[p]]
         /\ effect'[KeyOf[p]] # effect[KeyOf[p]] =>
              \/ /\ effect'[KeyOf[p]] = "done" /\ ~NoPivotAttempt(p) /\ effect[KeyOf[p]] = "none"
                 /\ UNCHANGED <<state, bracket, member>>
              \/ effect'[KeyOf[p]] = "void" /\ Denies(w) /\ InPivot(w) /\ job[w].vertex = p
<1>t. p \in Vertex /\ KeyOf[p] \in Key
  BY LedgerTyped DEF LInv, IInv
<1>o. effect[KeyOf[p]] \in {"none", "done", "void"}
  BY DEF PivotOutcomes
<1>1. EffectMove(w, KeyOf[p])
  BY <1>t, EffectMoves
<1>2. ASSUME NEW a \in attempts, KeyOf[a.vertex] = KeyOf[p] PROVE a.vertex = p /\ a.op \in {"pivot", "status"}
  BY <1>2, PivotKey
<1>3. ASSUME job[w].vertex \in Pivot, KeyOf[p] = KeyOf[job[w].vertex] PROVE job[w].vertex = p
  BY <1>3, <1>t DEF PivotKeysApart
<1> QED BY <1>o, <1>1, <1>2, <1>3, ZenonT(60) DEF EffectMove, NoPivotAttempt

\* The owner and the state of a bracket under a move.
LEMMA BracketFields ==
  ASSUME LInv, NEW w, Acts(w), NEW k \in Key
  PROVE  \/ bracket'[k] = bracket[k]
         \/ /\ SealsTry(w) /\ k = KeyOf[job[w].vertex] /\ bracket[k].vertex = None
            /\ bracket'[k].vertex = job[w].vertex /\ bracket'[k].state = "sealed"
         \/ /\ ConfirmsTry(w) /\ k = KeyOf[job[w].target]
            /\ bracket'[k].vertex = bracket[k].vertex /\ bracket'[k].state = "confirmed"
         \/ /\ \E v \in Vertex : KeyOf[v] = k /\ Sealed(v)
            /\ bracket'[k].vertex = bracket[k].vertex /\ bracket'[k].state = "cancelled"
<1>t. bracket[k] \in Brackets
  BY LedgerTyped DEF LInv, IInv
<1>1. ASSUME NEW to, bracket'[k] = [bracket[k] EXCEPT !.state = to]
      PROVE  bracket'[k].vertex = bracket[k].vertex /\ bracket'[k].state = to
  BY <1>1, <1>t DEF Brackets
<1>2. ASSUME NEW u, bracket'[k] = [vertex |-> u, state |-> "sealed"]
      PROVE  bracket'[k].vertex = u /\ bracket'[k].state = "sealed"
  BY <1>2
<1>3. CASE \E v \in Vertex : /\ KeyOf[v] = k /\ Sealed(v)
                             /\ bracket'[k] = [bracket[k] EXCEPT !.state = "cancelled"]
  BY <1>1, <1>3, Zenon
<1>4. \/ bracket'[k] = bracket[k]
      \/ SealsTry(w) /\ k = KeyOf[job[w].vertex] /\ bracket[k].vertex = None
         /\ bracket'[k] = [vertex |-> job[w].vertex, state |-> "sealed"]
      \/ ConfirmsTry(w) /\ k = KeyOf[job[w].target] /\ bracket'[k] = [bracket[k] EXCEPT !.state = "confirmed"]
      \/ \E v \in Vertex : /\ ScopeOf[v] \in Scope /\ state[ScopeOf[v]] = "cancelling" /\ KeyOf[v] = k /\ Sealed(v)
                            /\ bracket'[k] = [bracket[k] EXCEPT !.state = "cancelled"]
  BY BracketMoves
<1> QED BY <1>1, <1>2, <1>3, <1>4, Zenon

\* A confirmed effect is final.
LEMMA ConfirmedStays ==
  ASSUME LInv, PivotOutcomes, NEW w, Acts(w), NEW k \in Key, effect[k] = "confirmed"
  PROVE  effect'[k] = "confirmed"
<1>1. EffectMove(w, k)
  BY EffectMoves
<1>2. ASSUME NEW p \in Pivot PROVE KeyOf[p] # k
  BY DEF PivotOutcomes
<1> QED BY <1>1, <1>2 DEF EffectMove

\* What a try holds is given up only by the inverse of the owner of its bracket.
LEMMA HeldMoves ==
  ASSUME LInv, PivotKeysApart, NEW w, Acts(w), NEW v \in Try, effect[KeyOf[v]] \in Held, effect'[KeyOf[v]] \notin Held
  PROVE  BracketOwner(v) # None /\ member[BracketOwner(v)] # "none" /\ UNCHANGED <<bracket, member>>
<1>t. v \in Vertex /\ v \notin Pivot /\ KeyOf[v] \in Key /\ None \notin Vertex
  BY LedgerTyped DEF LInv, IInv
<1>1. EffectMove(w, KeyOf[v])
  BY <1>t, EffectMoves
<1>2. ~(job[w].vertex \in Pivot /\ KeyOf[v] = KeyOf[job[w].vertex])
  BY <1>t DEF PivotKeysApart
<1>3. PICK a \in attempts : KeyOf[a.vertex] = KeyOf[v] /\ a.op = "inverse" /\ UNCHANGED <<bracket, member>>
  BY <1>1, <1>2 DEF EffectMove, Held
<1>4. a.vertex \in Vertex
  BY LedgerTyped DEF LInv, IInv, Attempts
<1>5. member[a.vertex] # "none" /\ BracketOwner(a.vertex) = a.vertex
  BY <1>3, <1>4 DEF LInv, AttemptsFit, MembersOwn
<1> QED BY <1>3, <1>4, <1>5, <1>t, ZenonT(60) DEF BracketOwner
-----------------------------------------------------------------------------
(* The effects and the tables agree after every move                       *)

\* A try is held when it is sealed, and only an inverse takes it back.
LEMMA SealedHeldKept ==
  ASSUME LInv, EInv, PivotKeysApart, NEW w, Acts(w)
  PROVE  SealedHeld'
<1> SUFFICES ASSUME NEW v \in Try, BracketOwner(v)' = v, member'[v] = "none"
             PROVE  effect'[KeyOf[v]] \in Held
  BY DEF SealedHeld
<1>t. v \in Vertex /\ KeyOf[v] \in Key
  BY LedgerTyped DEF LInv, IInv
<1>1. CASE BracketOwner(v) = v
  <2>1. member[v] = "none"
    BY <1>t, MemberMoves
  <2>2. effect[KeyOf[v]] \in Held
    BY <1>1, <2>1 DEF EInv, SealedHeld
  <2> QED BY <1>1, <2>1, <2>2, HeldMoves
<1>2. CASE BracketOwner(v) # v
  <2>1. SealsTry(w) /\ KeyOf[v] = KeyOf[job[w].vertex] /\ bracket'[KeyOf[v]].vertex = job[w].vertex
    BY <1>2, <1>t, BracketFields, ZenonT(60) DEF BracketOwner
  <2>2. job[w].vertex = v
    BY <2>1 DEF BracketOwner
  <2>3. effect[KeyOf[v]] \in Held
    BY <2>1, <2>2 DEF SealsTry, EInv, KnowsTry, Heard
  <2> QED BY <2>1, <2>3 DEF SealsTry
<1> QED BY <1>1, <1>2

\* Nothing but a pivot is denied, and nothing is done to a pivot but the pivot.
LEMMA OutcomesKept ==
  ASSUME LInv, EInv, PivotKeysApart, NEW w, Acts(w)
  PROVE  PivotOutcomes'
<1>o. PivotOutcomes
  BY DEF EInv
<1>1. ASSUME NEW p \in Pivot PROVE effect'[KeyOf[p]] \in {"none", "done", "void"}
  BY <1>o, <1>1, PivotMoves DEF PivotOutcomes
<1>2. ASSUME NEW k \in Key, effect'[k] = "void" PROVE \E p \in Pivot : KeyOf[p] = k
  <2>1. EffectMove(w, k)
    BY EffectMoves
  <2> QED BY <1>o, <1>2, <2>1 DEF EffectMove, PivotOutcomes
<1> QED BY <1>1, <1>2 DEF PivotOutcomes

\* The scope has one pivot, so the process inside it works on that one.
LEMMA OwnPivot ==
  ASSUME LInv, NEW w \in Worker, InPivot(w), NEW p \in Pivot, ScopeOf[p] = job[w].scope
  PROVE  p = job[w].vertex
<1>1. job[w].vertex \in Pivot /\ job[w].scope \in Scope /\ job[w].scope = ScopeOf[job[w].vertex]
  BY DEF LInv, IInv, Stands, TypeOK, JobShape, InPivot, InCall, RowPcs, Operations
<1>2. None \notin Scope
  BY LedgerTyped DEF LInv, IInv
<1> QED BY <1>1, <1>2, OnePivotAssumption, ZenonT(60) DEF OnePivotAssumption

\* A scope with a denied pivot leaves pivot-inflight fenced, or for suspended.
LEMMA DeniedKept ==
  ASSUME LInv, EInv, PivotKeysApart, NEW w, Acts(w), fenced \subseteq fenced'
  PROVE  DeniedStays'
<1> SUFFICES ASSUME NEW p \in Pivot, effect'[KeyOf[p]] = "void"
             PROVE  ScopeOf[p] \in Scope /\ (ScopeOf[p] \in fenced' \/ state'[ScopeOf[p]] \in {"pivot-inflight", "suspended"})
  BY DEF DeniedStays
<1>1. CASE effect[KeyOf[p]] = "void"
  <2>1. ScopeOf[p] \in Scope /\ (ScopeOf[p] \in fenced \/ state[ScopeOf[p]] \in {"pivot-inflight", "suspended"})
    BY <1>1 DEF EInv, DeniedStays
  <2>2. RowMove(w, ScopeOf[p])
    BY <2>1, RowMoves
  <2>3. ~(w \in Worker /\ PivotAnswered(w, {"succeeded"}) /\ ScopeOf[p] = job[w].scope)
    <3> SUFFICES ASSUME w \in Worker, PivotAnswered(w, {"succeeded"}), ScopeOf[p] = job[w].scope PROVE FALSE
      OBVIOUS
    <3>1. InPivot(w) /\ Heard(w, "pivot", "succeeded")
      BY ZenonT(60) DEF PivotAnswered, InPivot, InCall, CallPcs, At, Heard
    <3>2. effect[KeyOf[job[w].vertex]] = "done"
      BY <3>1 DEF EInv, KnowsPivot
    <3> QED BY <1>1, <3>1, <3>2, OwnPivot
  <2> QED BY <2>1, <2>2, <2>3 DEF RowMove, PivotAdmissible
<1>2. CASE effect[KeyOf[p]] # "void"
  <2>1. Denies(w) /\ InPivot(w) /\ job[w].vertex = p
    BY <1>2, PivotMoves, ZenonT(60) DEF EInv
  <2>2. w \in Worker /\ state' = state
    BY <2>1, ZenonT(60) DEF Denies
  <2>3. state[job[w].scope] = "pivot-inflight" /\ job[w].scope \in Scope /\ job[w].scope = ScopeOf[p]
    BY <2>1, <2>2, ZenonT(60) DEF LInv, IInv, PivotHasScopeAlone, TypeOK, JobShape, InPivot, InCall, RowPcs, Operations
  <2> QED BY <2>2, <2>3, ZenonT(60)
<1> QED BY <1>1, <1>2

\* A scope passes its pivot on the process's knowledge that it happened.
LEMMA PassedKept ==
  ASSUME LInv, EInv, PivotKeysApart, NEW w, Acts(w)
  PROVE  PassedHappened'
<1> SUFFICES ASSUME NEW p \in Pivot, ScopeOf[p] \in Scope, state'[ScopeOf[p]] \in {"pivot-passed", "committed"}
             PROVE  effect'[KeyOf[p]] = "done"
  BY ZenonT(60) DEF PassedHappened
<1>1. effect[KeyOf[p]] = "done"
  <2>1. RowMove(w, ScopeOf[p])
    BY RowMoves
  <2>2. CASE state[ScopeOf[p]] \in {"pivot-passed", "committed"}
    BY <2>2 DEF EInv, PassedHappened
  <2>3. CASE w \in Worker /\ PivotAnswered(w, {"succeeded"}) /\ ScopeOf[p] = job[w].scope
    <3>1. InPivot(w) /\ Heard(w, "pivot", "succeeded")
      BY <2>3, ZenonT(60) DEF PivotAnswered, InPivot, InCall, CallPcs, At, Heard
    <3>2. effect[KeyOf[job[w].vertex]] = "done"
      BY <2>3, <3>1 DEF EInv, KnowsPivot
    <3> QED BY <2>3, <3>1, <3>2, OwnPivot, ZenonT(60)
  <2> QED BY <2>1, <2>2, <2>3 DEF RowMove
<1> QED BY <1>1, PivotMoves DEF EInv

\* A confirmed bracket stays so.
LEMMA ConfirmedBracketStays ==
  ASSUME LInv, NEW w, Acts(w), NEW k \in Key, bracket[k].state = "confirmed"
  PROVE  bracket'[k].state = "confirmed"
<1>1. bracket[k].vertex # None
  BY DEF LInv, BracketsOwned
<1>2. ASSUME NEW v \in Vertex, KeyOf[v] = k PROVE ~Sealed(v)
  BY <1>2 DEF Sealed
<1> QED BY <1>1, <1>2, BracketFields

\* txn/confirm and txn/scope committed are written on knowledge of the tools' answers.
LEMMA ConfirmsKept ==
  ASSUME LInv, EInv, NEW w, Acts(w)
  PROVE  ConfirmsDone'
<1>1. ASSUME NEW k \in Key, bracket'[k].state = "confirmed" PROVE effect'[k] = "confirmed"
  <2>1. effect[k] = "confirmed"
    <3>1. CASE bracket[k].state = "confirmed"
      BY <3>1, ZenonT(60) DEF EInv, ConfirmsDone
    <3>2. CASE bracket[k].state # "confirmed"
      <4>2. ConfirmsTry(w) /\ k = KeyOf[job[w].target]
        BY <1>1, <3>2, BracketFields, ZenonT(60)
      <4> QED BY <4>2, ZenonT(60) DEF ConfirmsTry, EInv, KnowsConfirm, Heard
    <3> QED BY <3>1, <3>2
  <2> QED BY <2>1, ConfirmedStays DEF EInv
<1>2. ASSUME NEW s \in Scope, state'[s] = "committed", NEW v \in Tcc \cap Members(s)
      PROVE  bracket'[KeyOf[v]].state = "confirmed"
  <2>t. KeyOf[v] \in Key
    BY LedgerTyped, ZenonT(60) DEF LInv, IInv, Members
  <2>1. bracket[KeyOf[v]].state = "confirmed"
    <3>1. RowMove(w, s)
      BY RowMoves
    <3>2. CASE state[s] = "committed"
      BY <3>2 DEF EInv, ConfirmsDone
    <3>3. CASE w \in Worker /\ At(w, "commit") /\ s = job[w].scope
      <4>1. job[w].todo = {} /\ InConfirm(w)
        BY <3>3, ZenonT(60) DEF LInv, Stands, InConfirm, At
      <4> QED BY <3>3, <4>1, ZenonT(60) DEF EInv, KnowsConfirm
    <3> QED BY <1>2, <3>1, <3>2, <3>3 DEF RowMove
  <2> QED BY <2>t, <2>1, ConfirmedBracketStays, ZenonT(60)
<1> QED BY <1>1, <1>2 DEF ConfirmsDone

\* Only the process inside the scope leads it back.
LEMMA NoReturnStays ==
  ASSUME LInv, NEW w, Acts(w), NEW s \in Scope, NoReturn(s)
  PROVE  NoReturn(s)' \/ (w \in Worker /\ At(w, "reopen") /\ s = job[w].scope)
<1>1. RowMove(w, s)
  BY RowMoves, ZenonT(60)
<1>2. \/ state'[s] \in {"pivot-inflight", "pivot-passed", "committed", "suspended"}
      \/ w \in Worker /\ At(w, "reopen") /\ s = job[w].scope
  BY <1>1, ZenonT(60) DEF NoReturn, RowMove, PivotAdmissible
<1>3. ASSUME NEW v \in Members(s) PROVE member'[v] = "none"
  <2>1. v \in Vertex /\ ScopeOf[v] = s /\ member[v] = "none"
    BY DEF NoReturn, CancelMembers, Members
  <2>2. state[s] # "open"
    BY DEF NoReturn
  <2> QED BY <2>1, <2>2, MemberMoves
<1>4. ASSUME NEW v \in Required(s) PROVE BracketOwner(v)' = v
  <2>1. KeyOf[v] \in Key /\ v # None
    BY LedgerTyped DEF LInv, IInv, Required, Members
  <2>2. BracketOwner(v) = v
    BY DEF NoReturn
  <2> QED BY <2>1, <2>2, OwnersStay, ZenonT(60) DEF BracketOwner
<1>5. (CancelMembers(s) = {})'
  BY <1>3 DEF CancelMembers
<1> QED BY <1>2, <1>4, <1>5 DEF NoReturn

\* A pivot is attempted only in flight, and the scope reopens only over a pivot that will not happen.
LEMMA HoldsKept ==
  ASSUME LInv, EInv, PivotKeysApart, NEW w, Acts(w)
  PROVE  PivotHolds'
<1>o. PivotOutcomes /\ PivotHolds
  BY ZenonT(60) DEF EInv
<1>r. ASSUME NEW p \in Pivot, w \in Worker, At(w, "reopen"), ScopeOf[p] = job[w].scope
      PROVE  effect[KeyOf[p]] = "void" \/ (effect[KeyOf[p]] # "done" /\ NoPivotAttempt(p))
  <2>1. InPivot(w)
    BY <1>r DEF InPivot, At
  <2>2. p = job[w].vertex
    BY <1>r, <2>1, OwnPivot, ZenonT(60)
  <2> QED BY <1>r, <2>2, ZenonT(60) DEF EInv, KnowsPivot
<1>1. ASSUME NEW p \in Pivot, effect'[KeyOf[p]] = "done" PROVE ScopeOf[p] \in Scope /\ NoReturn(ScopeOf[p])'
  <2>1. CASE effect[KeyOf[p]] = "done"
    <3>1. ScopeOf[p] \in Scope /\ NoReturn(ScopeOf[p])
      BY <2>1, <1>o, ZenonT(60) DEF PivotHolds
    <3> QED BY <2>1, <3>1, <1>r, NoReturnStays, ZenonT(60)
  <2>2. CASE effect[KeyOf[p]] # "done"
    <3>1. ~NoPivotAttempt(p) /\ effect[KeyOf[p]] = "none" /\ UNCHANGED <<state, bracket, member>>
      BY <1>1, <2>2, <1>o, PivotMoves, ZenonT(60)
    <3>2. PICK a \in attempts : a.op = "pivot" /\ a.vertex = p
      BY <3>1 DEF NoPivotAttempt
    <3>3. ScopeOf[p] \in Scope
      BY <3>2 DEF LInv, AttemptsFit
    <3>4. NoReturn(ScopeOf[p])
      BY <3>1, <3>2, <1>o, ZenonT(60) DEF PivotHolds
    <3> QED BY <3>1, <3>3, <3>4, ZenonT(60) DEF NoReturn, CancelMembers, BracketOwner
  <2> QED BY <2>1, <2>2, ZenonT(60)
<1>2. ASSUME NEW a \in attempts', a.op = "pivot" PROVE NoReturn(ScopeOf[a.vertex])' \/ effect'[KeyOf[a.vertex]] = "void"
  <2>1. CASE \E b \in attempts : a.vertex = b.vertex /\ a.op = b.op
    <3>1. PICK b \in attempts : a.vertex = b.vertex /\ b.op = "pivot"
      BY <1>2, <2>1, ZenonT(60)
    <3>2. b.vertex \in Pivot /\ ScopeOf[b.vertex] \in Scope /\ ~NoPivotAttempt(b.vertex)
      BY <3>1, ZenonT(60) DEF LInv, AttemptsFit, NoPivotAttempt
    <3>3. CASE effect[KeyOf[b.vertex]] = "void"
      BY <3>1, <3>2, <3>3, <1>o, PivotMoves, ZenonT(60)
    <3>4. CASE effect[KeyOf[b.vertex]] # "void"
      <4>1. NoReturn(ScopeOf[b.vertex])
        BY <3>1, <3>4, <1>o, ZenonT(60) DEF PivotHolds
      <4> QED BY <3>1, <3>2, <3>4, <4>1, <1>r, NoReturnStays, ZenonT(60)
    <3> QED BY <3>3, <3>4
  <2>2. CASE Starts(w) /\ a = CurrentAttempt(w)
    <3>1. w \in Worker /\ InPivot(w) /\ a.vertex = job[w].target /\ UNCHANGED <<state, bracket, member>>
      BY <1>2, <2>2 DEF Starts, CurrentAttempt, InPivot, InCall, CallPcs, At
    <3>2. a.vertex = job[w].vertex /\ job[w].scope \in Scope /\ job[w].scope = ScopeOf[a.vertex]
      BY <3>1, ZenonT(60) DEF LInv, IInv, Stands, TypeOK, JobShape, InPivot, InCall, RowPcs, Operations
    <3>3. state[job[w].scope] = "pivot-inflight"
      BY <3>1, Zenon DEF LInv, IInv, PivotHasScopeAlone
    <3>4. \A v \in Required(job[w].scope) : BracketOwner(v) = v
      BY <3>2, <3>3, ZenonT(60) DEF LInv, TriesOwn
    <3>5. CancelMembers(job[w].scope) = {}
      BY <3>3, ZenonT(60) DEF LInv, MembersOwn, Ended, CancelMembers, Members
    <3> QED BY <3>1, <3>2, <3>3, <3>4, <3>5, ZenonT(60) DEF NoReturn, CancelMembers, BracketOwner
  <2> QED BY <2>1, <2>2, AttemptMoves, ZenonT(60)
<1> QED BY <1>1, <1>2 DEF PivotHolds

\* A confirm lands for the owner of the bracket, whose scope can only close.
LEMMA ConfirmedOwnedKept ==
  ASSUME LInv, EInv, PivotKeysApart, NEW w, Acts(w)
  PROVE  ConfirmedOwned'
<1> SUFFICES ASSUME NEW k \in Key, effect'[k] = "confirmed"
             PROVE  /\ bracket'[k].vertex # None /\ member'[bracket'[k].vertex] = "none"
                    /\ state'[ScopeOf[bracket'[k].vertex]] \in {"pivot-passed", "committed", "suspended"}
  BY DEF ConfirmedOwned
<1>1. CASE effect[k] = "confirmed"
  <2> DEFINE u == bracket[k].vertex
  <2>1. u # None /\ member[u] = "none" /\ state[ScopeOf[u]] \in {"pivot-passed", "committed", "suspended"}
    BY <1>1 DEF EInv, ConfirmedOwned
  <2>2. u \in Vertex /\ ScopeOf[u] \in Scope
    BY <2>1, LedgerTyped, ZenonT(60) DEF LInv, IInv, BracketsOwned
  <2>3. bracket'[k].vertex = u
    BY <2>1, OwnersStay
  <2>4. member'[u] = "none"
    BY <2>1, <2>2, MemberMoves, ZenonT(60)
  <2>5. RowMove(w, ScopeOf[u])
    BY <2>2, RowMoves, ZenonT(60)
  <2> QED BY <2>1, <2>3, <2>4, <2>5, ZenonT(60) DEF RowMove, PivotAdmissible
<1>2. CASE effect[k] # "confirmed"
  <2>1. EffectMove(w, k)
    BY EffectMoves
  <2>2. PICK a \in attempts : KeyOf[a.vertex] = k /\ a.op = "confirm" /\ UNCHANGED <<state, bracket, member>>
    BY <1>2, <2>1, ZenonT(60) DEF EffectMove
  <2>3. /\ bracket[k].vertex = a.vertex /\ a.vertex \in Vertex /\ None \notin Vertex
        /\ state[ScopeOf[a.vertex]] \in {"pivot-passed", "committed", "suspended"}
    BY <2>2, LedgerTyped, ZenonT(60) DEF LInv, IInv, AttemptsFit, BracketOwner, Attempts
  <2>4. member[a.vertex] = "none"
    BY <2>2, <2>3, ZenonT(60) DEF LInv, InversesAlone
  <2> QED BY <2>2, <2>3, <2>4
<1> QED BY <1>1, <1>2, ZenonT(60)
-----------------------------------------------------------------------------
(* What a process knows survives the moves of the others                   *)

\* A tool that answered success to processRegular still holds the try, whatever the others do, as long as
\* no bracket is recorded: only a member of a sealed scope is called inversely.
LEMMA KnowsTryElsewhere ==
  ASSUME LInv, EInv, PivotKeysApart, NEW w, Acts(w), NEW x \in Worker, job'[x] = job[x]
  PROVE  KnowsTry(x)'
<1> SUFFICES ASSUME Heard(x, "call", "succeeded"), job[x].vertex \in Try, BracketOwner(job[x].vertex)' = None
             PROVE  effect'[KeyOf[job[x].vertex]] \in Held
  BY ZenonT(60) DEF KnowsTry, Heard, At, BracketOwner
<1>t. KeyOf[job[x].vertex] \in Key
  BY LedgerTyped, ZenonT(60) DEF LInv, IInv
<1>1. BracketOwner(job[x].vertex) = None
  BY <1>t, OwnersStay, ZenonT(60) DEF BracketOwner
<1>2. effect[KeyOf[job[x].vertex]] \in Held
  BY <1>1, ZenonT(60) DEF EInv, KnowsTry
<1> QED BY <1>1, <1>2, HeldMoves, ZenonT(60)

\* Nobody else is between admission and the passed scope, so nobody else starts or denies the pivot.
LEMMA KnowsPivotElsewhere ==
  ASSUME LInv, EInv, PivotKeysApart, NEW w \in Worker \cup {None}, Acts(w), NEW x \in Worker, x # w, job'[x] = job[x]
  PROVE  KnowsPivot(x)'
<1> USE DEF Heard, InPivot, InCall, CallPcs, At
<1>1. CASE ~InPivot(x)
  BY <1>1, ZenonT(60) DEF KnowsPivot
<1>2. CASE InPivot(x)
  <2> DEFINE p == job[x].vertex
  <2>o. PivotOutcomes /\ KnowsPivot(x)
    BY DEF EInv
  <2>p. p \in Pivot /\ job[x].scope = ScopeOf[p]
    BY <1>2, ZenonT(60) DEF LInv, IInv, Stands, TypeOK, JobShape, RowPcs, Operations
  <2>a. w \in Worker /\ InPivot(w) => job[w].vertex # p /\ job[w].target = job[w].vertex
    <3> SUFFICES ASSUME w \in Worker, InPivot(w) PROVE job[w].vertex # p /\ job[w].target = job[w].vertex
      OBVIOUS
    <3>1. job[w].scope = ScopeOf[job[w].vertex] /\ job[w].target = job[w].vertex
      BY ZenonT(60) DEF LInv, IInv, Stands, TypeOK, JobShape, RowPcs, Operations
    <3>2. job[w].scope # job[x].scope
      BY <1>2, ZenonT(60) DEF LInv, IInv, PivotHasScopeAlone
    <3> QED BY <3>1, <3>2, <2>p, ZenonT(60)
  <2>1. ASSUME NEW a \in attempts', a.op = "pivot", a.vertex = p
        PROVE  a.holder = x /\ ~NoPivotAttempt(p)
    <3>1. ~(Starts(w) /\ a = CurrentAttempt(w))
      <4> SUFFICES ASSUME Starts(w), a = CurrentAttempt(w) PROVE FALSE
        OBVIOUS
      <4>1. a.vertex = job[w].target /\ a.op = job[w].op
        BY DEF CurrentAttempt
      <4>2. w \in Worker /\ InPivot(w)
        BY <2>1, <4>1, Zenon DEF Starts
      <4> QED BY <2>1, <2>a, <4>1, <4>2, Zenon
    <3>2. PICK b \in attempts : a.vertex = b.vertex /\ a.op = b.op /\ (a.holder = b.holder \/ b.holder = w)
      BY <3>1, AttemptMoves, ZenonT(60)
    <3>3. b.holder = x
      BY <1>2, <2>1, <2>o, <3>2, ZenonT(60) DEF KnowsPivot
    <3> QED BY <2>1, <3>2, <3>3, ZenonT(60) DEF NoPivotAttempt
  <2>2. NoPivotAttempt(p) => NoPivotAttempt(p)'
    BY <2>1, ZenonT(60) DEF NoPivotAttempt
  <2>3. ~(Denies(w) /\ InPivot(w) /\ job[w].vertex = p)
    BY <2>a DEF Denies
  <2>4. /\ effect[KeyOf[p]] \in {"done", "void"} => effect'[KeyOf[p]] = effect[KeyOf[p]]
        /\ effect'[KeyOf[p]] = "void" => effect[KeyOf[p]] = "void"
        /\ effect'[KeyOf[p]] = "done" /\ NoPivotAttempt(p) => effect[KeyOf[p]] = "done"
    BY <2>p, <2>o, <2>3, PivotMoves, ZenonT(60)
  <2> QED BY <1>2, <2>o, <2>1, <2>2, <2>4, ZenonT(60) DEF KnowsPivot
<1> QED BY <1>1, <1>2, ZenonT(60)

\* What a process knows of a confirm it is making stays so while the others move: nobody takes a
\* confirmed effect back and nobody unconfirms its bracket.
LEMMA KnowsConfirmElsewhere ==
  ASSUME LInv, EInv, NEW w, Acts(w), NEW x \in Worker, job'[x] = job[x]
  PROVE  KnowsConfirm(x)'
<1>1. Heard(x, "confirm", "succeeded") => effect'[KeyOf[job[x].target]] = "confirmed"
  <2>1. Heard(x, "confirm", "succeeded") => KeyOf[job[x].target] \in Key
    BY LedgerTyped, Zenon DEF LInv, IInv, TypeOK, JobShape, CallPcs, Heard, At
  <2> QED BY <2>1, ConfirmedStays, Zenon DEF EInv, KnowsConfirm
<1>2. ASSUME InConfirm(x), NEW v \in Tcc \cap Members(job[x].scope)
      PROVE  v \in job[x].todo \/ bracket'[KeyOf[v]].state = "confirmed"
  <2>1. KeyOf[v] \in Key
    BY LedgerTyped DEF LInv, IInv, Members
  <2> QED BY <1>2, <2>1, ConfirmedBracketStays, ZenonT(60) DEF EInv, KnowsConfirm
<1> QED BY <1>1, <1>2 DEF KnowsConfirm, Heard, At, InConfirm, InCall
-----------------------------------------------------------------------------
(* What a process knows where its own step takes it                        *)

\* A process that starts afresh relies on nothing.
LEMMA KnowsFresh ==
  ASSUME NEW w \in Worker, job'[w].pc \in FreshPcs
  PROVE  KnowsTry(w)' /\ KnowsPivot(w)' /\ KnowsConfirm(w)' /\ KnowsUndone(w)'
BY Zenon DEF FreshPcs, KnowsTry, KnowsPivot, KnowsConfirm, KnowsUndone, Heard, At, InCall, CallPcs, InPivot, InConfirm

\* Which steps lead to an answer, and which into processPivot and confirmScope.
LEMMA Positions ==
  ASSUME TypeOK, NEW w \in Worker
  PROVE  /\ EnsureScope(w) \/ CheckOwner(w) \/ ResolvePivotAbsent(w) \/ ClaimCancelMember(w) =>
              job'[w].pc # "answered" /\ ~InPivot(w)' /\ ~InConfirm(w)'
         /\ PassPivot(w) \/ NextConfirm(w) \/ RecordConfirmed(w) => job'[w].pc # "answered" /\ ~InPivot(w)'
         /\ AdmitPivot(w) \/ BranchOnPivot(w) => job'[w].pc # "answered" /\ ~InConfirm(w)'
         /\ RecordAttemptStart(w) => job'[w].pc # "answered"
         /\ ResolvePivotAttempt(w) => ~InConfirm(w)' /\ (job'[w].pc = "answered" => job'[w].op = "pivot")
<1>j. job \in [Worker -> Jobs]
  BY ZenonT(60) DEF TypeOK
<1> USE DEF InPivot, InConfirm, InCall, CallPcs
<1>1. ASSUME EnsureScope(w) \/ CheckOwner(w) \/ ResolvePivotAbsent(w) \/ ClaimCancelMember(w)
      PROVE  job'[w].pc # "answered" /\ ~InPivot(w)' /\ ~InConfirm(w)'
  <2>1. \/ Quit(w)
        \/ \E pc \in {"refuse", "admit", "owner", "complete", "fail-absent", "close"} : Goto(w, pc)
        \/ \E op \in {"call", "inverse"} : \E v : StartCall(w, op, v)
    BY <1>1, Zenon DEF EnsureScope, CheckOwner, ResolvePivotAbsent, ClaimCancelMember
  <2> QED BY <2>1, <1>j, GotoJob, StartCallJob, QuitJob, ZenonT(60)
<1>2. ASSUME PassPivot(w) \/ NextConfirm(w) \/ RecordConfirmed(w)
      PROVE  job'[w].pc # "answered" /\ ~InPivot(w)'
  <2>1. \/ Quit(w) \/ Goto(w, "commit")
        \/ \E v : StartCall(w, "confirm", v)
        \/ \E left : job' = [job EXCEPT ![w].pc = "confirm", ![w].todo = left]
        \/ job' = [job EXCEPT ![w].pc = "confirm", ![w].todo = @ \ {job[w].target}]
    BY <1>2, Zenon DEF PassPivot, NextConfirm, RecordConfirmed
  <2>2. ASSUME NEW left, job' = [job EXCEPT ![w].pc = "confirm", ![w].todo = left] PROVE job'[w].pc = "confirm"
    BY <2>2, <1>j DEF Jobs
  <2>3. ASSUME job' = [job EXCEPT ![w].pc = "confirm", ![w].todo = @ \ {job[w].target}] PROVE job'[w].pc = "confirm"
    BY <2>3, <1>j, ZenonT(60) DEF Jobs
  <2>4. CASE Quit(w)
    <3>1. job'[w].pc = "idle"
      BY <2>4, <1>j DEF Quit, Idle
    <3> QED BY <3>1
  <2>6. CASE Goto(w, "commit")
    <3>1. job'[w].pc = "commit"
      BY <2>6, <1>j DEF Goto
    <3> QED BY <3>1
  <2>5. CASE \E v : StartCall(w, "confirm", v)
    BY <2>5, <1>j, StartCallJob, ZenonT(60)
  <2> QED BY <2>1, <2>2, <2>3, <2>4, <2>5, <2>6, ZenonT(60)
<1>3. ASSUME AdmitPivot(w) \/ BranchOnPivot(w)
      PROVE  job'[w].pc # "answered" /\ ~InConfirm(w)'
  <2>1. \/ \E pc \in {"release", "reopen", "resolve-occurred", "resolve-absent"} : Goto(w, pc)
        \/ \E op \in {"pivot", "status"} : \E v : StartCall(w, op, v)
    BY <1>3, ZenonT(60) DEF AdmitPivot, BranchOnPivot
  <2> QED BY <2>1, <1>j, GotoJob, StartCallJob, ZenonT(60)
<1>4. ASSUME RecordAttemptStart(w) PROVE job'[w].pc # "answered"
  <2>1. Quit(w) \/ Goto(w, "calling")
    BY <1>4, Zenon DEF RecordAttemptStart
  <2>2. CASE Quit(w)
    BY <2>2, <1>j DEF Quit, Idle
  <2>3. CASE Goto(w, "calling")
    BY <2>3, <1>j DEF Goto
  <2> QED BY <2>1, <2>2, <2>3
<1>5. ASSUME ResolvePivotAttempt(w) PROVE ~InConfirm(w)' /\ (job'[w].pc = "answered" => job'[w].op = "pivot")
  <2>1. CASE Goto(w, "reopen")
    BY <2>1, <1>j, GotoJob
  <2>2. CASE job' = [job EXCEPT ![w].pc = "answered", ![w].op = "pivot", ![w].res = "succeeded"]
    BY <2>2, <1>j DEF Jobs
  <2> QED BY <1>5, <2>1, <2>2, ZenonT(60) DEF ResolvePivotAttempt
<1> QED BY <1>1, <1>2, <1>3, <1>4, <1>5, ZenonT(60)

\* The answers a tool may give, and what has happened when it gives them.
LEMMA ExecuteTells ==
  ASSUME TypeOK, NEW w \in Worker, Execute(w), NEW k, k = KeyOf[job[w].target], k \in Key
  PROVE  /\ job[w].pc = "calling" /\ attempts' \subseteq attempts /\ UNCHANGED <<state, bracket, member>>
         /\ \/ /\ job'[w].pc = "answered" /\ job'[w].res = "succeeded" /\ job[w].op # "status"
               /\ effect'[k] = Applied(job[w].op, effect[k])
            \/ /\ MayFail(job[w].op, effect[k]) /\ effect' = effect /\ Resolved(w)
               /\ job'[w].pc = "dispatch" \/ (job'[w].pc = "answered" /\ job'[w].res = "failed")
            \/ job'[w].pc = "answered" /\ job'[w].res = "unknown" /\ effect' = effect
            \/ /\ job[w].op = "status" /\ job'[w].pc = "answered"
               /\ \/ job'[w].res = "invalid" /\ effect' = effect
                  \/ job'[w].res = "occurred" /\ effect[k] = "done" /\ effect' = effect
                  \/ job'[w].res = "absent" /\ effect'[k] = "void"
<1>t. job \in [Worker -> Jobs] /\ effect \in [Key -> Effects]
  BY DEF TypeOK
<1>r. ASSUME NEW res, Respond(w, res) PROVE job'[w].pc = "answered" /\ job'[w].res = res
  BY <1>r, <1>t DEF Respond, Jobs
<1>d. ASSUME job' = [job EXCEPT ![w].pc = "dispatch", ![w].tries = @ + 1] PROVE job'[w].pc = "dispatch"
  BY <1>d, <1>t DEF Jobs
<1>0. job[w].pc = "calling" /\ UNCHANGED <<state, bracket, member>>
  BY DEF Execute, At, scopeVars, bracketVars, memberVars
<1>1. CASE ToolSucceeds(w)
  <2>1. effect'[k] = Applied(job[w].op, effect[k])
    BY <1>1, <1>t, Zenon DEF ToolSucceeds
  <2> QED BY <1>0, <1>1, <1>r, <2>1, ZenonT(60) DEF ToolSucceeds, Resolved
<1>2. CASE ToolFails(w)
  <2>1. MayFail(job[w].op, effect[k]) /\ effect' = effect /\ Resolved(w)
    BY <1>2 DEF ToolFails
  <2>2. job'[w].pc = "dispatch" \/ (job'[w].pc = "answered" /\ job'[w].res = "failed")
    BY <1>2, <1>r, <1>d, Zenon DEF ToolFails
  <2> QED BY <1>0, <2>1, <2>2, ZenonT(60) DEF Resolved
<1>3. CASE ToolUnknown(w)
  BY <1>0, <1>3, <1>r, ZenonT(60) DEF ToolUnknown
<1>4. CASE StatusAnswers(w)
  <2>1. job[w].op = "status" /\ attempts' \subseteq attempts
    BY <1>4, ZenonT(60) DEF StatusAnswers, Resolved
  <2>2. CASE Respond(w, "absent") /\ effect' = [effect EXCEPT ![KeyOf[job[w].target]] = "void"]
    <3>1. effect'[k] = "void"
      BY <2>2, <1>t
    <3> QED BY <1>0, <1>r, <2>1, <2>2, <3>1, ZenonT(60)
  <2>3. CASE Respond(w, "invalid") /\ effect' = effect
    BY <1>0, <1>r, <2>1, <2>3, ZenonT(60)
  <2>4. CASE Respond(w, "occurred") /\ effect[KeyOf[job[w].target]] = "done" /\ effect' = effect
    BY <1>0, <1>r, <2>1, <2>4, ZenonT(60)
  <2> QED BY <1>4, <2>2, <2>3, <2>4, ZenonT(60) DEF StatusAnswers
<1> QED BY <1>1, <1>2, <1>3, <1>4, ZenonT(60) DEF Execute

\* A try's call that succeeded holds at the tool.
LEMMA KnowsTryOn ==
  ASSUME LInv, EInv, PivotKeysApart, NEW w \in Worker, GoesOn(w)
  PROVE  KnowsTry(w)'
<1>t. TypeOK /\ job \in [Worker -> Jobs] /\ effect \in [Key -> Effects]
  BY DEF LInv, IInv, TypeOK
<1>1. CASE Execute(w)
  <2> SUFFICES ASSUME job'[w].pc = "answered", job'[w].op = "call", job'[w].res = "succeeded", job'[w].vertex \in Try
               PROVE  effect'[KeyOf[job'[w].vertex]] \in Held
    BY DEF KnowsTry, Heard, At
  <2>1. job'[w].vertex = job[w].vertex /\ job[w].op = "call"
    BY <1>1, <1>t, ExecuteJob, ZenonT(60)
  <2> DEFINE v == job[w].vertex
             k == KeyOf[v]
  <2>2. v \in Vertex /\ v \notin Pivot /\ k \in Key
    BY <2>1, <1>t, LedgerTyped
  <2>3. job[w].target = v
    BY <1>1, <2>1, Zenon DEF LInv, Stands, InCall, CallPcs, Execute, At
  <2>4. effect[k] # "void"
    BY <2>2, Zenon DEF EInv, PivotOutcomes, PivotKeysApart
  <2>5. effect'[k] = Applied("call", effect[k])
    BY <1>1, <1>t, <2>1, <2>2, <2>3, ExecuteTells, ZenonT(60)
  <2>6. effect[k] \in Effects
    BY <1>t, <2>2, ZenonT(60)
  <2> QED BY <2>1, <2>4, <2>5, <2>6, ZenonT(60) DEF Applied, Held, Effects
<1>2. CASE ~Execute(w)
  <2>1. job'[w].pc # "answered" \/ job'[w].op = "pivot"
    BY <1>2, <1>t, Positions, ZenonT(60) DEF GoesOn
  <2> QED BY <2>1 DEF KnowsTry, Heard, At
<1> QED BY <1>1, <1>2

\* From admission to the passed or reopened scope, the process knows what became of its pivot.
LEMMA KnowsPivotOn ==
  ASSUME LInv, EInv, PivotKeysApart, NEW w \in Worker, GoesOn(w)
  PROVE  KnowsPivot(w)'
<1>t. TypeOK /\ job \in [Worker -> Jobs] /\ effect \in [Key -> Effects] /\ Stands(w) /\ KnowsPivot(w)
  BY DEF LInv, EInv, IInv, TypeOK
<1>o. PivotOutcomes /\ DeniedStays /\ PivotHolds
  BY DEF EInv
<1> DEFINE p == job[w].vertex
           e == effect[KeyOf[p]]
<1>n. ASSUME ~InPivot(w)' PROVE KnowsPivot(w)'
  BY <1>n, Zenon DEF KnowsPivot, Heard, InPivot, InCall, CallPcs, At
<1>1. CASE AdmitPivot(w)
  <2>1. CASE PivotAdmissible(job[w].scope)
    <3>1. /\ StartCall(w, "pivot", p) /\ attempts' = attempts /\ effect' = effect
          /\ job[w].pc = "admit"
      BY <1>1, <2>1, Zenon DEF AdmitPivot, At
    <3>2. p \in Pivot /\ job[w].scope \in Scope /\ job[w].scope = ScopeOf[p]
      BY <3>1, <1>t, ZenonT(60) DEF TypeOK, JobShape, RowPcs, Stands, At
    <3>3. e # "void"
      BY <2>1, <3>2, <1>o, ZenonT(60) DEF DeniedStays, PivotAdmissible
    <3>4. NoPivotAttempt(p)
      BY <2>1, <3>2, <3>3, <1>o, ZenonT(60) DEF PivotHolds, NoReturn, PivotAdmissible, NoPivotAttempt
    <3>5. job'[w].pc = "dispatch" /\ job'[w].op = "pivot" /\ job'[w].vertex = p
      BY <3>1, <1>t, StartCallJob, ZenonT(60)
    <3> QED BY <3>1, <3>3, <3>4, <3>5, ZenonT(60) DEF KnowsPivot, NoPivotAttempt, Heard, InPivot, InCall, CallPcs, At
  <2>2. CASE ~PivotAdmissible(job[w].scope)
    <3>1. Goto(w, "release")
      BY <1>1, <2>2 DEF AdmitPivot
    <3>2. job'[w].pc = "release"
      BY <3>1, <1>t, GotoJob, ZenonT(60)
    <3> QED BY <3>2 DEF KnowsPivot, Heard, InPivot, InCall, CallPcs, At
  <2> QED BY <2>1, <2>2
<1>2. CASE RecordAttemptStart(w)
  <2>1. CASE Quit(w)
    BY <2>1, <1>t, QuitJob, ZenonT(60) DEF KnowsPivot, Heard, InPivot, InCall, CallPcs, At
  <2>2. CASE attempts' = attempts \cup {CurrentAttempt(w)} /\ Goto(w, "calling")
    <3>1. effect' = effect /\ job[w].pc = "dispatch"
      BY <1>2, ZenonT(60) DEF RecordAttemptStart, At
    <3>2. /\ job'[w].pc = "calling" /\ job'[w].op = job[w].op /\ job'[w].vertex = p
      BY <2>2, <1>t, GotoJob, ZenonT(60)
    <3>3. CurrentAttempt(w).holder = w
      BY ZenonT(60) DEF CurrentAttempt
    <3> QED BY <2>2, <3>1, <3>2, <3>3, <1>t, ZenonT(60) DEF KnowsPivot, Heard, InPivot, InCall, CallPcs, At
  <2> QED BY <1>2, <2>1, <2>2, ZenonT(60) DEF RecordAttemptStart
<1>3. CASE Execute(w)
  <2>1. /\ job'[w].pc \in {"answered", "dispatch"} /\ job'[w].op = job[w].op /\ job'[w].vertex = p
        /\ job[w].pc = "calling"
    BY <1>3, <1>t, ExecuteJob, Zenon DEF Execute, At
  <2>2. CASE job[w].op \notin {"pivot", "status"}
    BY <2>1, <2>2, Zenon DEF KnowsPivot, Heard, InPivot, InCall, CallPcs, At
  <2>3. CASE job[w].op \in {"pivot", "status"}
    <3>1. InPivot(w) /\ InCall(w, {job[w].op}) /\ ~At(w, "answered")
      BY <2>1, <2>3 DEF InPivot, InCall, CallPcs, At
    <3>2. p \in Pivot /\ job[w].target = p
      BY <3>1, <1>t, ZenonT(60) DEF Stands
    <3>3. KeyOf[p] \in Key /\ e \in {"none", "done", "void"}
      BY <3>2, <1>t, <1>o, LedgerTyped DEF PivotOutcomes
    <3>4. e # "void" /\ \A a \in attempts : a.op = "pivot" /\ a.vertex = p => a.holder = w
      BY <2>3, <3>1, <1>t, Zenon DEF KnowsPivot
    <3>5. attempts' \subseteq attempts
      BY <1>3, <1>t, <3>2, <3>3, ExecuteTells, ZenonT(60)
    <3>6. CASE job[w].op = "pivot" /\ job'[w].pc = "answered" /\ job'[w].res = "succeeded" /\ effect'[KeyOf[p]] = Applied("pivot", e)
      <4>1. effect'[KeyOf[p]] = "done"
        BY <3>3, <3>4, <3>6 DEF Applied
      <4> QED BY <2>1, <3>4, <3>5, <3>6, <4>1, ZenonT(60) DEF KnowsPivot, Heard, InPivot, InCall, CallPcs, At
    <3>7. CASE /\ MayFail(job[w].op, e) /\ effect' = effect /\ Resolved(w)
               /\ job'[w].pc = "dispatch" \/ (job'[w].pc = "answered" /\ job'[w].res = "failed")
      <4>1. job[w].op = "pivot" => e # "done"
        BY <3>7, ZenonT(60) DEF MayFail
      <4>2. job[w].op = "pivot" => NoPivotAttempt(p)'
        <5> SUFFICES ASSUME job[w].op = "pivot", NEW a \in attempts', a.op = "pivot", a.vertex = p PROVE FALSE
          BY <2>1 DEF NoPivotAttempt
        <5>1. a \in Attempts /\ a.holder = w
          BY <3>4, <3>5, <1>t, LedgerTyped, ZenonT(60)
        <5>2. a = CurrentAttempt(w)
          BY <3>2, <5>1, ZenonT(60) DEF CurrentAttempt, Attempts
        <5> QED BY <3>7, <5>2, ZenonT(60) DEF Resolved
      <4> QED BY <2>1, <3>4, <3>5, <3>7, <4>1, <4>2, ZenonT(60) DEF KnowsPivot, Heard, InPivot, InCall, CallPcs, At
    <3>8. CASE job'[w].pc = "answered" /\ job'[w].res = "unknown" /\ effect' = effect
      BY <2>1, <3>4, <3>5, <3>8, ZenonT(60) DEF KnowsPivot, Heard, InPivot, InCall, CallPcs, At
    <3>9. CASE /\ job[w].op = "status" /\ job'[w].pc = "answered"
               /\ \/ job'[w].res = "invalid" /\ effect' = effect
                  \/ job'[w].res = "occurred" /\ effect[KeyOf[p]] = "done" /\ effect' = effect
                  \/ job'[w].res = "absent" /\ effect'[KeyOf[p]] = "void"
      BY <2>1, <3>4, <3>5, <3>9, ZenonT(60) DEF KnowsPivot, Heard, InPivot, InCall, CallPcs, At
    <3> QED BY <1>3, <1>t, <2>3, <3>2, <3>3, <3>6, <3>7, <3>8, <3>9, ExecuteTells, ZenonT(60)
  <2> QED BY <2>2, <2>3
<1>4. CASE BranchOnPivot(w)
  <2>1. attempts' = attempts /\ effect' = effect
    BY <1>4 DEF BranchOnPivot, storeVars
  <2>2. \/ PivotAnswered(w, {"unknown"}) /\ StartCall(w, "status", p)
        \/ PivotAnswered(w, {"failed"}) /\ Goto(w, "reopen")
        \/ StatusAnswered(w, {"occurred"}) /\ Goto(w, "resolve-occurred")
        \/ StatusAnswered(w, {"absent"}) /\ Goto(w, "resolve-absent")
    BY <1>4, Zenon DEF BranchOnPivot
  <2>3. CASE PivotAnswered(w, {"unknown"}) /\ StartCall(w, "status", p)
    <3>1. job'[w].pc = "dispatch" /\ job'[w].op = "status" /\ job'[w].vertex = p
      BY <2>3, <1>t, StartCallJob, Zenon
    <3> QED BY <2>1, <2>3, <3>1, <1>t, ZenonT(60) DEF KnowsPivot, PivotAnswered, Heard, InPivot, InCall, CallPcs, At
  <2>4. CASE PivotAnswered(w, {"failed"}) /\ Goto(w, "reopen")
    <3>1. job'[w].pc = "reopen" /\ job'[w].vertex = p
      BY <2>4, <1>t, GotoJob
    <3>2. effect'[KeyOf[p]] # "done" /\ NoPivotAttempt(p)
      BY <2>1, <2>4, <1>t, ZenonT(60) DEF KnowsPivot, PivotAnswered, Heard, At
    <3> QED BY <2>1, <3>1, <3>2, ZenonT(60) DEF KnowsPivot, NoPivotAttempt, Heard, InPivot, InCall, CallPcs, At
  <2>5. CASE StatusAnswered(w, {"occurred"}) /\ Goto(w, "resolve-occurred")
    <3>1. job'[w].pc = "resolve-occurred" /\ job'[w].vertex = p
      BY <2>5, <1>t, GotoJob, Zenon
    <3> QED BY <2>1, <2>5, <3>1, <1>t, ZenonT(60) DEF KnowsPivot, StatusAnswered, Heard, InPivot, InCall, CallPcs, At
  <2>6. CASE StatusAnswered(w, {"absent"}) /\ Goto(w, "resolve-absent")
    <3>1. job'[w].pc = "resolve-absent" /\ job'[w].vertex = p
      BY <2>6, <1>t, GotoJob
    <3> QED BY <2>1, <2>6, <3>1, <1>t, ZenonT(60) DEF KnowsPivot, StatusAnswered, Heard, InPivot, InCall, CallPcs, At
  <2> QED BY <2>2, <2>3, <2>4, <2>5, <2>6, ZenonT(60)
<1>5. CASE ResolvePivotAttempt(w)
  <2>1. attempts' \subseteq attempts /\ effect' = effect
    BY <1>5 DEF ResolvePivotAttempt
  <2>2. CASE At(w, "resolve-occurred") /\ job' = [job EXCEPT ![w].pc = "answered", ![w].op = "pivot", ![w].res = "succeeded"]
    <3>1. job'[w].pc = "answered" /\ job'[w].op = "pivot" /\ job'[w].res = "succeeded" /\ job'[w].vertex = p
      BY <2>2, <1>t DEF Jobs
    <3> QED BY <2>1, <2>2, <3>1, <1>t, ZenonT(60) DEF KnowsPivot, Heard, InPivot, InCall, CallPcs, At
  <2>3. CASE At(w, "resolve-absent") /\ Goto(w, "reopen")
    <3>1. job'[w].pc = "reopen" /\ job'[w].vertex = p
      BY <2>3, <1>t, GotoJob, ZenonT(60)
    <3> QED BY <2>1, <2>3, <3>1, <1>t, ZenonT(60) DEF KnowsPivot, Heard, InPivot, InCall, CallPcs, At
  <2> QED BY <1>5, <2>2, <2>3 DEF ResolvePivotAttempt
<1>6. CASE \/ EnsureScope(w) \/ CheckOwner(w) \/ ResolvePivotAbsent(w) \/ ClaimCancelMember(w)
           \/ PassPivot(w) \/ NextConfirm(w) \/ RecordConfirmed(w)
  BY <1>6, <1>t, <1>n, Positions, ZenonT(60)
<1> QED BY <1>1, <1>2, <1>3, <1>4, <1>5, <1>6, ZenonT(60) DEF GoesOn

\* confirmScope works through its list, and confirms only what is held.
LEMMA KnowsConfirmOn ==
  ASSUME LInv, EInv, NEW w \in Worker, GoesOn(w), Acts(w)
  PROVE  KnowsConfirm(w)'
<1>t. /\ TypeOK /\ job \in [Worker -> Jobs] /\ effect \in [Key -> Effects] /\ bracket \in [Key -> Brackets]
      /\ Stands(w) /\ KnowsConfirm(w) /\ Tcc \subseteq Try
  BY LedgerTyped, Zenon DEF LInv, EInv, IInv, TypeOK, Try
<1>m. ASSUME NEW v \in Tcc \cap Members(job[w].scope) PROVE v \in Vertex /\ KeyOf[v] \in Key /\ v \in Required(job[w].scope)
  BY <1>t, LedgerTyped, ZenonT(60) DEF Members, Required
<1>1. ASSUME job'[w].pc = "answered", job'[w].op = "confirm", job'[w].res = "succeeded"
      PROVE  effect'[KeyOf[job'[w].target]] = "confirmed"
  <2>1. Execute(w)
    BY <1>1, <1>t, Positions, Zenon DEF GoesOn
  <2>2. job'[w].target = job[w].target /\ job[w].op = "confirm" /\ job[w].pc = "calling"
    BY <1>1, <1>t, <2>1, ExecuteJob, ZenonT(60) DEF Execute, At
  <2> DEFINE v == job[w].target
             k == KeyOf[v]
  <2>3. InConfirm(w) /\ InCall(w, {"confirm"})
    BY <2>2 DEF InConfirm, InCall, CallPcs
  <2>4. v \in Tcc \cap Members(job[w].scope)
    BY <2>3, <1>t, Zenon DEF Stands
  <2>5. state[job[w].scope] = "pivot-passed" /\ job[w].scope \in Scope
    BY <2>3, <1>t, ZenonT(60) DEF LInv, IInv, PivotHasScopeAlone, TypeOK, JobShape
  <2>6. BracketOwner(v) = v
    BY <2>4, <2>5, <1>m, Zenon DEF LInv, TriesOwn
  <2>7. member[v] = "none"
    BY <2>4, <2>5, <1>m, ZenonT(60) DEF LInv, MembersOwn, Ended, Members
  <2>8. effect[k] \in Held
    BY <2>4, <2>6, <2>7, <1>t, ZenonT(60) DEF EInv, SealedHeld
  <2>9. effect'[k] = Applied("confirm", effect[k])
    BY <1>1, <1>t, <1>m, <2>1, <2>2, <2>4, ExecuteTells, ZenonT(60)
  <2> QED BY <2>2, <2>8, <2>9 DEF Applied, Held
<1> DEFINE Listed(todo, s) == \A v \in Tcc \cap Members(s) : v \in todo \/ bracket'[KeyOf[v]].state = "confirmed"
<1>k. ASSUME InConfirm(w), NEW v \in Tcc \cap Members(job[w].scope)
      PROVE  v \in job[w].todo \/ bracket'[KeyOf[v]].state = "confirmed"
  BY <1>k, <1>m, <1>t, ConfirmedBracketStays, Zenon DEF KnowsConfirm
<1>2. ASSUME InConfirm(w)' PROVE Listed(job'[w].todo, job'[w].scope)
  <2>1. CASE PassPivot(w)
    <3>1. ~Quit(w)
      BY <1>2, <1>t, QuitJob, ZenonT(60) DEF InConfirm, InCall, CallPcs
    <3>2. /\ job' = [job EXCEPT ![w].pc = "confirm", ![w].todo = SealedIn(job[w].scope) \cap Tcc]
          /\ bracket' = bracket /\ PivotAnswered(w, {"succeeded"})
      BY <2>1, <3>1 DEF PassPivot, bracketVars
    <3>3. job'[w].scope = job[w].scope /\ job'[w].todo = SealedIn(job[w].scope) \cap Tcc
      BY <3>2, <1>t DEF Jobs
    <3>4. InPivot(w)
      BY <3>2 DEF PivotAnswered, InPivot, InCall, CallPcs, At
    <3>5. state[job[w].scope] = "pivot-inflight" /\ job[w].scope \in Scope
      BY <3>4, <1>t, ZenonT(60) DEF LInv, IInv, PivotHasScopeAlone, TypeOK, JobShape
    <3>6. ASSUME NEW v \in Tcc \cap Members(job[w].scope)
          PROVE  v \in SealedIn(job[w].scope) \/ bracket[KeyOf[v]].state = "confirmed"
      <4>1. BracketOwner(v) = v /\ bracket[KeyOf[v]].state \in {"sealed", "confirmed"}
        BY <3>5, <1>m DEF LInv, TriesOwn
      <4>2. bracket[KeyOf[v]] \in Brackets
        BY <1>m, <1>t
      <4>3. bracket[KeyOf[v]].state = "sealed" => Sealed(v)
        BY <4>1, <4>2 DEF Brackets, Sealed, BracketOwner
      <4> QED BY <4>1, <4>3, ZenonT(60) DEF SealedIn
    <3> QED BY <3>2, <3>3, <3>6, Zenon
  <2>2. CASE NextConfirm(w)
    <3>1. InConfirm(w)
      BY <2>2 DEF NextConfirm, InConfirm, At
    <3>2. Goto(w, "commit") \/ \E v : StartCall(w, "confirm", v)
      BY <2>2, Zenon DEF NextConfirm
    <3>3. job'[w].todo = job[w].todo /\ job'[w].scope = job[w].scope
      BY <3>2, <1>t, GotoJob, GotoRest, StartCallJob, StartCallRest, ZenonT(60)
    <3> QED BY <1>k, <3>1, <3>3, ZenonT(60)
  <2>3. CASE RecordConfirmed(w)
    <3>1. ~Quit(w)
      BY <1>2, <1>t, QuitJob DEF InConfirm, InCall, CallPcs
    <3>2. /\ job' = [job EXCEPT ![w].pc = "confirm", ![w].todo = @ \ {job[w].target}]
          /\ RecordConfirm(job[w].target) /\ At(w, "answered") /\ job[w].op = "confirm"
      BY <2>3, <3>1 DEF RecordConfirmed
    <3>3. job'[w].scope = job[w].scope /\ job'[w].todo = job[w].todo \ {job[w].target}
      BY <3>2, <1>t DEF Jobs
    <3>4. InConfirm(w) /\ InCall(w, {"confirm"})
      BY <3>2 DEF InConfirm, InCall, CallPcs, At
    <3>5. job[w].target \in Tcc \cap Members(job[w].scope)
      BY <3>4, <1>t, ZenonT(60) DEF Stands
    <3>6. bracket'[KeyOf[job[w].target]].state = "confirmed"
      BY <3>2, <3>5, <1>m, <1>t, ZenonT(60) DEF RecordConfirm, Brackets
    <3> QED BY <1>k, <3>3, <3>4, <3>6, ZenonT(60)
  <2>4. CASE RecordAttemptStart(w) \/ Execute(w)
    <3>1. job'[w].todo = job[w].todo /\ job'[w].scope = job[w].scope /\ InConfirm(w)
      <4>1. CASE Execute(w)
        BY <1>2, <1>t, <4>1, ExecuteJob, ZenonT(60) DEF Execute, InConfirm, InCall, CallPcs, At
      <4>2. CASE RecordAttemptStart(w)
        <5>1. ~Quit(w)
          BY <1>2, <1>t, QuitJob DEF InConfirm, InCall, CallPcs
        <5>2. Goto(w, "calling") /\ job[w].pc = "dispatch"
          BY <4>2, <5>1, Zenon DEF RecordAttemptStart, At
        <5>3. /\ job'[w].pc = "calling" /\ job'[w].op = job[w].op /\ job'[w].scope = job[w].scope
              /\ job'[w].todo = job[w].todo
          BY <5>2, <1>t, GotoJob, GotoRest, ZenonT(60)
        <5> QED BY <1>2, <5>2, <5>3, ZenonT(60) DEF InConfirm, InCall, CallPcs
      <4> QED BY <2>4, <4>1, <4>2
    <3> QED BY <1>k, <3>1, ZenonT(60)
  <2> QED BY <1>2, <1>t, <2>1, <2>2, <2>3, <2>4, Positions, ZenonT(60) DEF GoesOn
<1> QED BY <1>1, <1>2 DEF KnowsConfirm, Heard, At
-----------------------------------------------------------------------------
(* What is undone stays undone                                             *)

\* The effect of a member's key moves by inverses only.
LEMMA UndoneStays ==
  ASSUME LInv, NEW w, Acts(w), NEW v \in Vertex, Local(v), member[v] # "none", effect[KeyOf[v]] = "undone"
  PROVE  effect'[KeyOf[v]] = "undone"
<1>t. KeyOf[v] \in Key /\ v \in Try /\ ScopeOf[v] \in Scope /\ state[ScopeOf[v]] \in Ended
  BY LedgerTyped, Zenon DEF LInv, IInv, MembersOwn
<1>1. EffectMove(w, KeyOf[v])
  BY <1>t, EffectMoves, ZenonT(60)
<1>2. ASSUME NEW a \in attempts, KeyOf[a.vertex] = KeyOf[v] PROVE a.op = "inverse"
  <2>1. a.vertex \in Vertex
    BY LedgerTyped, ZenonT(60) DEF LInv, IInv, Attempts
  <2>2. ScopeOf[a.vertex] = ScopeOf[v]
    BY <1>2, <2>1, ZenonT(60) DEF Local
  <2> QED BY <2>2, Zenon DEF LInv, InversesAlone
<1>3. ~(Denies(w) /\ InPivot(w) /\ KeyOf[v] = KeyOf[job[w].vertex])
  <2> SUFFICES ASSUME Denies(w), InPivot(w), KeyOf[v] = KeyOf[job[w].vertex] PROVE FALSE
    OBVIOUS
  <2>1. w \in Worker
    BY DEF Denies
  <2>2. job[w].vertex \in Vertex /\ job[w].scope = ScopeOf[job[w].vertex]
    BY <2>1, ZenonT(60) DEF LInv, IInv, TypeOK, JobShape, InPivot, InCall, RowPcs, Operations
  <2>3. state[job[w].scope] = "pivot-inflight"
    BY <2>1 DEF LInv, IInv, PivotHasScopeAlone
  <2> QED BY <1>t, <2>2, <2>3, ZenonT(60) DEF Local, Ended
<1> QED BY <1>1, <1>2, <1>3, ZenonT(60) DEF EffectMove

\* complete_cancel_member follows the inverse, and no late effect brings the member back.
LEMMA UndoneKept ==
  ASSUME LInv, UInv, NEW w, Acts(w)
  PROVE  DoneIsUndone'
<1> SUFFICES ASSUME NEW v \in Vertex, member'[v] = "done", Local(v) PROVE effect'[KeyOf[v]] = "undone"
  BY DEF DoneIsUndone, Local
<1>1. CASE member[v] = "done"
  BY <1>1, UndoneStays, ZenonT(60) DEF UInv, DoneIsUndone
<1>2. CASE member[v] # "done"
  <2>1. CompletesMember(w) /\ v = job[w].target
    BY <1>2, MemberMoves, ZenonT(60)
  <2> QED BY <2>1, ZenonT(60) DEF CompletesMember, UInv, KnowsUndone, Heard
<1> QED BY <1>1, <1>2, ZenonT(60)

\* What a canceller has heard of the inverse it called stays so while the others move: an effect that
\* is undone is done by nobody again.
LEMMA KnowsUndoneElsewhere ==
  ASSUME LInv, UInv, NEW w, Acts(w), NEW x \in Worker, job'[x] = job[x]
  PROVE  KnowsUndone(x)'
<1> SUFFICES ASSUME Heard(x, "inverse", "succeeded"), Local(job[x].target) PROVE effect'[KeyOf[job[x].target]] = "undone"
  BY DEF KnowsUndone, Heard, At, Local
<1>1. job[x].target \in Vertex /\ member[job[x].target] # "none"
  BY ZenonT(60) DEF LInv, IInv, TypeOK, JobShape, Stands, InCall, CallPcs, Heard, At
<1>2. effect[KeyOf[job[x].target]] = "undone"
  BY ZenonT(60) DEF UInv, KnowsUndone
<1> QED BY <1>1, <1>2, UndoneStays, ZenonT(60)

\* An inverse that succeeded has undone its member: a member is neither confirmed nor a pivot.
LEMMA KnowsUndoneOn ==
  ASSUME LInv, EInv, PivotKeysApart, NEW w \in Worker, GoesOn(w)
  PROVE  KnowsUndone(w)'
<1> SUFFICES ASSUME job'[w].pc = "answered", job'[w].op = "inverse", job'[w].res = "succeeded"
             PROVE  effect'[KeyOf[job'[w].target]] = "undone"
  BY DEF KnowsUndone, Heard, At
<1>t. TypeOK /\ job \in [Worker -> Jobs] /\ effect \in [Key -> Effects] /\ Stands(w)
  BY Zenon DEF LInv, IInv, TypeOK
<1>1. Execute(w)
  BY <1>t, Positions, Zenon DEF GoesOn
<1>2. job'[w].target = job[w].target /\ job[w].op = "inverse" /\ job[w].pc = "calling"
  BY <1>1, <1>t, ExecuteJob, ZenonT(60) DEF Execute, At
<1> DEFINE v == job[w].target
           k == KeyOf[v]
<1>3. v \in Vertex /\ member[v] # "none"
  BY <1>2, <1>t, ZenonT(60) DEF TypeOK, JobShape, Stands, InCall, CallPcs
<1>4. v \in Try /\ BracketOwner(v) = v /\ k \in Key /\ v \notin Pivot
  BY <1>3, <1>t, LedgerTyped, ZenonT(60) DEF LInv, MembersOwn
<1>5. effect[k] # "confirmed"
  BY <1>3, <1>4, Zenon DEF EInv, ConfirmedOwned, BracketOwner
<1>6. effect[k] # "void"
  BY <1>3, <1>4, Zenon DEF EInv, PivotOutcomes, PivotKeysApart
<1>7. effect'[k] = Applied("inverse", effect[k])
  BY <1>1, <1>2, <1>4, <1>t, ExecuteTells, ZenonT(60)
<1>8. effect[k] \in Effects
  BY <1>4, <1>t, ZenonT(60)
<1> QED BY <1>2, <1>5, <1>6, <1>7, <1>8, ZenonT(60) DEF Applied, Effects
-----------------------------------------------------------------------------
(* The theorems                                                            *)

\* Every process knows what it relies on after every step of the system.
LEMMA KnowledgeKept ==
  ASSUME LInv, EInv, PivotKeysApart, [Next]_vars
  PROVE  \A x \in Worker : KnowsTry(x)' /\ KnowsPivot(x)' /\ KnowsConfirm(x)'
<1>t. TypeOK /\ None \notin Worker
  BY LedgerTyped DEF LInv, IInv
<1>1. ASSUME NEW w \in Worker, Step(w) PROVE \A x \in Worker : KnowsTry(x)' /\ KnowsPivot(x)' /\ KnowsConfirm(x)'
  <2>1. Acts(w) /\ (\A x \in Worker \ {w} : job'[x] = job[x]) /\ (job'[w].pc \in FreshPcs \/ GoesOn(w))
    BY <1>1, <1>t, StepActs, StepJob, ZenonT(60)
  <2>2. KnowsTry(w)' /\ KnowsPivot(w)' /\ KnowsConfirm(w)'
    BY <2>1, KnowsFresh, KnowsTryOn, KnowsPivotOn, KnowsConfirmOn, ZenonT(60)
  <2>3. ASSUME NEW x \in Worker, x # w PROVE KnowsTry(x)' /\ KnowsPivot(x)' /\ KnowsConfirm(x)'
    <3>1. job'[x] = job[x] /\ Acts(w)
      BY <2>1, <2>3, Zenon
    <3>2. KnowsTry(x)'
      BY <2>3, <3>1, KnowsTryElsewhere, ZenonT(60)
    <3>3. KnowsPivot(x)'
      BY <2>3, <3>1, KnowsPivotElsewhere, ZenonT(60)
    <3>4. KnowsConfirm(x)'
      BY <2>3, <3>1, KnowsConfirmElsewhere, ZenonT(60)
    <3> QED BY <3>2, <3>3, <3>4, Zenon
  <2> QED BY <2>2, <2>3, ZenonT(60)
<1>2. ASSUME Around \/ UNCHANGED vars PROVE \A x \in Worker : KnowsTry(x)' /\ KnowsPivot(x)' /\ KnowsConfirm(x)'
  <2>1. Acts(None) /\ UNCHANGED job
    BY <1>2, AroundActs
  <2> QED BY <2>1, <1>t, KnowsTryElsewhere, KnowsPivotElsewhere, KnowsConfirmElsewhere, ZenonT(60)
<1> QED BY <1>1, <1>2, NextSteps, ZenonT(60)

\* When no vertex shares the key of a pivot, what the tables say of the tools is true in every
\* reachable state, whatever lands late, and every process knows what it acts on.
THEOREM EffectsAgree == ASSUME PivotKeysApart PROVE Spec => []EInv
<1>1. Init /\ IInv => EInv
  <2> SUFFICES ASSUME Init, IInv PROVE EInv
    BY ZenonT(60)
  <2>1. /\ \A k \in Key : effect[k] = "none" /\ bracket[k].vertex = None /\ bracket[k].state = "none"
        /\ \A s \in Scope : state[s] = "absent"
        /\ attempts = {}
        /\ \A w \in Worker : job[w].pc = "idle"
    BY ZenonT(60) DEF Init, StoreInit, NoBracket, Idle
  <2>2. /\ \A v \in Vertex : KeyOf[v] \in Key
        /\ Try \subseteq Vertex /\ Pivot \subseteq Vertex /\ None \notin Vertex
    BY LedgerTyped DEF IInv
  <2>3. SealedHeld /\ PivotOutcomes /\ DeniedStays /\ PassedHappened /\ ConfirmsDone /\ PivotHolds /\ ConfirmedOwned
    BY <2>1, <2>2, ZenonT(60) DEF SealedHeld, PivotOutcomes, DeniedStays, PassedHappened, ConfirmsDone, PivotHolds, ConfirmedOwned, BracketOwner
  <2>4. \A w \in Worker : KnowsTry(w) /\ KnowsPivot(w) /\ KnowsConfirm(w)
    BY <2>1, ZenonT(60) DEF KnowsTry, KnowsPivot, KnowsConfirm, Heard, At, InCall, CallPcs, InPivot, InConfirm
  <2> QED BY <2>3, <2>4 DEF EInv
<1>2. LInv /\ EInv /\ [Next]_vars => EInv'
  <2> SUFFICES ASSUME LInv, EInv, [Next]_vars PROVE EInv'
    OBVIOUS
  <2>1. PICK w \in Worker \cup {None} : Move(w)
    BY NextMoves
  <2>2. Acts(w) /\ fenced \subseteq fenced'
    BY <2>1 DEF Move
  <2>3. SealedHeld' /\ PivotOutcomes' /\ DeniedStays' /\ PassedHappened' /\ ConfirmsDone' /\ PivotHolds' /\ ConfirmedOwned'
    BY <2>2, SealedHeldKept, OutcomesKept, DeniedKept, PassedKept, ConfirmsKept, HoldsKept, ConfirmedOwnedKept, ZenonT(60)
  <2> QED BY <2>3, KnowledgeKept DEF EInv
<1> QED BY <1>1, <1>2, LedgerAgrees, PTL DEF Spec, LInv

\* The pivot and the undo of a scope exclude each other, provided no other vertex shares the
\* pivot's key: once the irreversible effect is there, every try of its scope is held.
THEOREM PivotOrUndo == ASSUME PivotKeysApart PROVE Spec => []PivotExcludesInverse
<1>1. LInv /\ EInv => PivotExcludesInverse
  <2> SUFFICES ASSUME LInv, EInv, NEW p \in Pivot, NEW t \in Try, ScopeOf[p] = ScopeOf[t], effect[KeyOf[p]] = "done"
               PROVE  effect[KeyOf[t]] # "undone"
    BY DEF PivotExcludesInverse
  <2>1. t \in Required(ScopeOf[p])
    BY LedgerTyped, ZenonT(60) DEF LInv, IInv, Required, Members
  <2>2. NoReturn(ScopeOf[p])
    BY ZenonT(60) DEF EInv, PivotHolds
  <2>3. BracketOwner(t) = t /\ member[t] = "none"
    BY <2>1, <2>2, ZenonT(60) DEF NoReturn, CancelMembers, Required
  <2>4. effect[KeyOf[t]] \in Held
    BY <2>3, ZenonT(60) DEF EInv, SealedHeld
  <2> QED BY <2>4 DEF Held
<1> QED BY <1>1, LedgerAgrees, EffectsAgree, PTL

\* From admit_pivot to txn/scope committed every required try owns its bracket and is held at
\* its tool, provided no other vertex shares the pivot's key.
THEOREM PivotOverHeldTries == ASSUME PivotKeysApart PROVE Spec => []PivotNeedsSeals
<1>1. LInv /\ EInv => PivotNeedsSeals
  <2> SUFFICES ASSUME LInv, EInv, NEW s \in Scope, state[s] \in {"pivot-inflight", "pivot-passed", "committed"},
                      NEW v \in Required(s)
               PROVE  /\ BracketOwner(v) = v /\ bracket[KeyOf[v]].state \in {"sealed", "confirmed"}
                      /\ effect[KeyOf[v]] \in Held
    BY DEF PivotNeedsSeals
  <2>1. BracketOwner(v) = v /\ bracket[KeyOf[v]].state \in {"sealed", "confirmed"}
    BY DEF LInv, TriesOwn
  <2>2. member[v] = "none"
    BY ZenonT(60) DEF LInv, MembersOwn, Ended, Required, Members
  <2> QED BY <2>1, <2>2, ZenonT(60) DEF EInv, SealedHeld, Required
<1> QED BY <1>1, LedgerAgrees, EffectsAgree, PTL

\* A committed scope had its pivot, and every try with a confirm tool is confirmed in the tables
\* and at the tool, provided no other vertex shares the pivot's key.
THEOREM CommitIsReal == ASSUME PivotKeysApart PROVE Spec => []CommittedMeansConfirmed
<1>1. LInv /\ EInv => CommittedMeansConfirmed
  <2> SUFFICES ASSUME LInv, EInv, NEW s \in Scope, state[s] = "committed"
               PROVE  /\ \A p \in Pivot : ScopeOf[p] = s => effect[KeyOf[p]] = "done"
                      /\ \A v \in Tcc : ScopeOf[v] = s =>
                          bracket[KeyOf[v]].state = "confirmed" /\ effect[KeyOf[v]] = "confirmed"
    BY DEF CommittedMeansConfirmed
  <2>1. ASSUME NEW p \in Pivot, ScopeOf[p] = s PROVE effect[KeyOf[p]] = "done"
    BY <2>1, ZenonT(60) DEF EInv, PassedHappened
  <2>2. ASSUME NEW v \in Tcc, ScopeOf[v] = s PROVE bracket[KeyOf[v]].state = "confirmed" /\ effect[KeyOf[v]] = "confirmed"
    <3>1. v \in Vertex /\ KeyOf[v] \in Key
      BY LedgerTyped DEF LInv, IInv, Try
    <3> QED BY <2>2, <3>1, ZenonT(60) DEF EInv, ConfirmsDone, Members
  <2> QED BY <2>1, <2>2, ZenonT(60)
<1> QED BY <1>1, LedgerAgrees, EffectsAgree, PTL

\* When no vertex shares the key of a pivot, a completed member is undone at its tool for good,
\* except where another scope uses its key.
THEOREM UndoneAgrees == ASSUME PivotKeysApart PROVE Spec => []UInv
<1>1. Init /\ IInv => UInv
  <2> SUFFICES ASSUME Init, IInv PROVE UInv
    OBVIOUS
  <2>1. (\A v \in Vertex : member[v] = "none") /\ (\A w \in Worker : job[w].pc = "idle")
    BY DEF Init, StoreInit, Idle
  <2> QED BY <2>1, ZenonT(60) DEF UInv, DoneIsUndone, KnowsUndone, Heard, At
<1>2. LInv /\ EInv /\ UInv /\ [Next]_vars => UInv'
  <2> SUFFICES ASSUME LInv, EInv, UInv, [Next]_vars PROVE UInv'
    BY ZenonT(60)
  <2>t. TypeOK /\ None \notin Worker
    BY LedgerTyped, ZenonT(60) DEF LInv, IInv
  <2>1. ASSUME NEW w \in Worker, Step(w) PROVE UInv'
    <3>1. Acts(w) /\ (\A x \in Worker \ {w} : job'[x] = job[x]) /\ (job'[w].pc \in FreshPcs \/ GoesOn(w))
      BY <2>1, <2>t, StepActs, StepJob, ZenonT(60)
    <3>2. KnowsUndone(w)'
      BY <3>1, KnowsFresh, KnowsUndoneOn, ZenonT(60)
    <3>3. ASSUME NEW x \in Worker, x # w PROVE KnowsUndone(x)'
      BY <3>1, <3>3, KnowsUndoneElsewhere, ZenonT(60)
    <3> QED BY <3>1, <3>2, <3>3, UndoneKept, ZenonT(60) DEF UInv
  <2>2. ASSUME Around \/ UNCHANGED vars PROVE UInv'
    <3>1. Acts(None) /\ UNCHANGED job
      BY <2>2, AroundActs
    <3> QED BY <3>1, KnowsUndoneElsewhere, UndoneKept, ZenonT(60) DEF UInv
  <2> QED BY <2>1, <2>2, NextSteps
<1> QED BY <1>1, <1>2, LedgerAgrees, EffectsAgree, PTL DEF Spec, LInv

\* Every member of a cancelled scope is completed and undone at its tool, however many sweeps
\* worked on it, provided no vertex shares the pivot's key and no try shares one across scopes.
THEOREM CancelIsReal == ASSUME PivotKeysApart, KeysPerScope PROVE Spec => []CancelledMembersUndone
<1>1. LInv /\ UInv => CancelledMembersUndone
  <2> SUFFICES ASSUME LInv, UInv, NEW s \in Scope, state[s] = "cancelled", NEW v \in CancelMembers(s)
               PROVE  member[v] = "done" /\ effect[KeyOf[v]] = "undone"
    BY ZenonT(60) DEF CancelledMembersUndone
  <2>1. v \in Vertex /\ member[v] \in {"todo", "done"} /\ v \in Members(s) /\ v \in Try
    BY LedgerTyped DEF LInv, IInv, CancelMembers, Members, MembersOwn
  <2>2. member[v] = "done"
    BY <2>1 DEF LInv, CancelledHasNoneLeft, IncompleteMembers
  <2> QED BY <2>1, <2>2, ZenonT(60) DEF UInv, DoneIsUndone, KeysPerScope
<1> QED BY <1>1, LedgerAgrees, UndoneAgrees, PTL
=============================================================================
