----------------------- MODULE VariableProtocol_proofs -----------------------
(***************************************************************************)
(* The command protocol of two or four seats with its shared undo, for     *)
(* every number of players, commands and messages.                         *)
(***************************************************************************)
EXTENDS VariableProtocol, SequenceTheorems, WellFoundedInduction, TLAPS

-----------------------------------------------------------------------------
(* The first and the last of some numbers *)

LessThan == {ss \in Nat \X Nat : ss[1] < ss[2]}
LEMMA LessIsWellFounded == IsWellFoundedOn(LessThan, Nat)
<1>1. LessThan = OpToRel(<, Nat) BY DEF LessThan, OpToRel
<1> QED BY <1>1, NatLessThanWellFounded

LEMMA Least ==
  ASSUME NEW S \in SUBSET Nat, S # {} PROVE \E a \in S : \A b \in S : a <= b
<1>1. PICK x \in S : \A y \in S : ~(<<y, x>> \in LessThan)
  BY LessIsWellFounded, WFMin
<1>2. ASSUME NEW y \in S PROVE x <= y
  <2>1. x \in Nat /\ y \in Nat OBVIOUS
  <2>2. ~(<<y, x>> \in LessThan) BY <1>1
  <2>3. ~(y < x) BY <2>1, <2>2 DEF LessThan
  <2> QED BY <2>1, <2>3
<1> QED BY <1>2

LEMMA Greatest ==
  ASSUME NEW n \in Nat, NEW S \in SUBSET (0 .. n), S # {}
  PROVE  \E a \in S : \A b \in S : b <= a
<1> DEFINE T == {x \in Nat : x <= n /\ n - x \in S}
<1>1. T \in SUBSET Nat /\ T # {}
  <2>1. PICK a \in S : TRUE OBVIOUS
  <2>2. a \in 0 .. n OBVIOUS
  <2>3. n - a \in Nat /\ n - a <= n /\ n - (n - a) = a BY <2>2
  <2>4. n - a \in T BY <2>3
  <2> QED BY <2>4
<1>2. PICK x \in T : \A y \in T : x <= y BY <1>1, Least
<1>3. n - x \in S /\ x \in Nat /\ x <= n OBVIOUS
<1>4. ASSUME NEW b \in S PROVE b <= n - x
  <2>1. b \in 0 .. n OBVIOUS
  <2>2. n - b \in Nat /\ n - b <= n /\ n - (n - b) = b BY <2>1
  <2>3. n - b \in T BY <2>2
  <2>4. x <= n - b BY <1>2, <2>3
  <2> QED BY <1>3, <2>1, <2>4
<1> QED BY <1>3, <1>4

USE VariableAssumption, CheckpointAssumption

-----------------------------------------------------------------------------
(* Around the table *)

LEMMA Table ==
  /\ TurnOrder \in Seq(Players) /\ Len(TurnOrder) \in Nat \ {0}
  /\ DOMAIN TurnOrder = 1 .. Len(TurnOrder)
<1>1. TurnOrder \in Seq(Players) OBVIOUS
<1>2. Len(TurnOrder) \in Nat /\ DOMAIN TurnOrder = 1 .. Len(TurnOrder) BY <1>1
<1>3. PICK p \in Players : TRUE OBVIOUS
<1>4. \E i \in DOMAIN TurnOrder : TRUE BY <1>3 DEF Players
<1>5. Len(TurnOrder) # 0 BY <1>2, <1>4
<1> QED BY <1>1, <1>2, <1>5

LEMMA OnceAround ==
  ASSUME NEW p \in Players PROVE Ahead(p, Len(TurnOrder)) = p
<1> DEFINE n == Len(TurnOrder)
           s == Seat(p)
<1>1. \E i \in DOMAIN TurnOrder : TurnOrder[i] = p BY DEF Players
<1>2. s \in DOMAIN TurnOrder /\ TurnOrder[s] = p BY <1>1 DEF Seat
<1>3. n \in Nat \ {0} /\ s \in 1 .. n BY <1>2, Table
<1> HIDE DEF n, s
<1>4. s + n - 1 = (s - 1) + n /\ s - 1 \in Nat /\ s - 1 < n BY <1>3
<1>5. \A x \in Nat : x < n => (x + n) % n = x BY <1>3
<1>6. (s + n - 1) % n = s - 1 BY <1>4, <1>5
<1>7. ((s + n - 1) % n) + 1 = s BY <1>3, <1>6
<1> QED BY <1>2, <1>7 DEF Ahead, n, s

(* The turn passes to somebody who is still in the game. *)
LEMMA NextSurvives ==
  ASSUME NEW root \in CoreRoots, root.active \in Survivors(root)
  PROVE  NextPlayer(root) \in Survivors(root)
<1> DEFINE Surviving(k) == Ahead(root.active, k) \in Survivors(root)
           K == {k \in 1 .. Len(TurnOrder) : Surviving(k)}
           First(k) == Surviving(k) /\ \A j \in 1 .. (k - 1) : ~Surviving(j)
<1>1. Len(TurnOrder) \in Nat \ {0} BY Table
<1>2. Surviving(Len(TurnOrder))
  <2>1. root.active \in Players BY DEF Survivors
  <2> QED BY <2>1, OnceAround
<1> HIDE DEF Surviving
<1>3. Len(TurnOrder) \in K /\ K \in SUBSET Nat BY <1>1, <1>2
<1>4. PICK a \in K : \A b \in K : a <= b
  <2> HIDE DEF K
  <2> QED BY <1>3, Least
<1>5. \E k \in 1 .. Len(TurnOrder) : First(k)
  <2>1. \A j \in 1 .. (a - 1) : ~Surviving(j)
    <3> SUFFICES ASSUME NEW j \in 1 .. (a - 1), Surviving(j) PROVE FALSE OBVIOUS
    <3>1. j \in K BY <1>1
    <3>2. a <= j BY <1>4, <3>1
    <3> QED BY <3>2
  <2> QED BY <2>1
<1>6. Surviving(CHOOSE k \in 1 .. Len(TurnOrder) : First(k)) BY <1>5
<1> QED BY <1>6 DEF NextPlayer, Surviving

-----------------------------------------------------------------------------
(* A root on which nothing belongs to somebody who left *)

Owned(root) ==
  LET S == Survivors(root) IN
  /\ root.active \in S
  /\ \A o \in root.stack : o.by \in S /\ o.at <= root.acceptedCommandCount
  /\ root.holds \union root.attacked \subseteq S
  /\ root.searches \subseteq S \X S

LEMMA TopIsThere ==
  ASSUME NEW root \in CoreRoots, Owned(root), root.stack # {}
  PROVE  Top(root) \in root.stack
<1> DEFINE n == root.acceptedCommandCount
           A == {o.at : o \in root.stack}
<1>1. n \in Nat /\ root.stack \subseteq StackObjects BY DEF CoreRoots
<1>2. A \in SUBSET (0 .. n) /\ A # {} BY <1>1 DEF Owned, StackObjects
<1>3. PICK a \in A : \A b \in A : b <= a
  <2> HIDE DEF n, A
  <2> QED BY <1>1, <1>2, Greatest
<1>4. PICK o \in root.stack : o.at = a OBVIOUS
<1>5. \A other \in root.stack : other.at <= o.at BY <1>3, <1>4
<1> QED BY <1>5 DEF Top

LEMMA StewardSurvives ==
  ASSUME NEW root \in CoreRoots, Owned(root)
  PROVE  StackSteward(root) \in Survivors(root) /\ StackSteward(root) \in Players
<1>1. CASE root.stack = {} BY <1>1 DEF StackSteward, Owned, Survivors
<1>2. CASE root.stack # {}
  <2>1. Top(root) \in root.stack BY <1>2, TopIsThere
  <2> QED BY <1>2, <2>1 DEF StackSteward, Owned, Survivors
<1> QED BY <1>1, <1>2

LEMMA DraftFields ==
  ASSUME NEW d \in Drafts
  PROVE  /\ d.participantId \in Players /\ d.cap \in Players
         /\ d.commandId \in CommandIds /\ d.kind \in Kinds /\ d.actor \in Players
         /\ d.target \in Players /\ d.skew \in {0, 1}
         /\ Leaving(d) \subseteq Players
BY DEF DraftSet, Leaving

LEMMA SurvivorsAfter ==
  ASSUME NEW root \in CoreRoots, NEW d \in Drafts, NEW barred
  PROVE  /\ Survivors(CoreAfter(root, d, barred)) = Survivors(root) \ Leaving(d)
         /\ Survivors(root) \subseteq Players
<1>1. \A p \in Players : CoreAfter(root, d, barred).standing[p] =
                           IF p \in Leaving(d) THEN Cause(d) ELSE root.standing[p]
  BY DEF CoreAfter
<1>2. Cause(d) # "active" BY DEF Cause
<1> QED BY <1>1, <1>2 DEF Survivors
(* What each part of the next root is, kind by kind. *)
LEMMA PartsAfter ==
  ASSUME NEW root \in CoreRoots, NEW d \in Drafts, Owned(root), CoreAdmits(root, d)
  PROVE  /\ d.kind = "advance" =>
              NextPlayer(root) \in Survivors(root) /\ Leaving(d) = {}
         /\ \A o \in StackAfter(root, d) :
              /\ o \in StackObjects /\ o.by \in Survivors(root) \ Leaving(d)
              /\ o.at <= root.acceptedCommandCount + 1
         /\ HoldsAfter(root, d) \union AttackedAfter(root, d)
              \subseteq Survivors(root) \ Leaving(d)
         /\ SearchesAfter(root, d) \subseteq (Survivors(root) \ Leaving(d)) \X
                                             (Survivors(root) \ Leaving(d))
<1> DEFINE S == Survivors(root)
           n == root.acceptedCommandCount
<1>1. /\ n \in Nat /\ root.stack \subseteq StackObjects /\ S \subseteq Players
      /\ root.holds \subseteq S /\ root.attacked \subseteq S
      /\ root.searches \subseteq S \X S /\ root.active \in S
      /\ \A o \in root.stack : o.by \in S /\ o.at <= n
  BY DEF CoreRoots, Owned, Survivors
<1>2. CoreActor(d) \in S BY DEF CoreAdmits
<1>3. d.kind \notin DamageKinds => d.actor \in S BY <1>2 DEF CoreActor
<1>4. d.kind \notin ExitCauses \union {"lethal"} => Leaving(d) = {}
  BY DEF Leaving
<1>5. d.kind = "advance" => NextPlayer(root) \in S /\ Leaving(d) = {}
  BY <1>1, <1>4, NextSurvives DEF ExitCauses
<1>6. /\ d.kind = "attack" => d.target \in S
      /\ d.kind = "search-open" => d.target \in S
  BY DEF CoreAdmits
<1>7. /\ HoldsAfter(root, d) \subseteq S \ Leaving(d)
  <2>1. CASE d.kind = "hold"
    BY <1>1, <1>3, <1>4, <2>1 DEF HoldsAfter, ExitCauses, DamageKinds
  <2>2. CASE d.kind = "release" BY <1>1, <1>4, <2>2 DEF HoldsAfter, ExitCauses
  <2>3. CASE d.kind \notin {"hold", "release"} BY <1>1, <2>3 DEF HoldsAfter
  <2> QED BY <2>1, <2>2, <2>3
<1>8. AttackedAfter(root, d) \subseteq S \ Leaving(d)
  <2>1. CASE d.kind = "attack"
    BY <1>1, <1>4, <1>6, <2>1 DEF AttackedAfter, ExitCauses
  <2>2. CASE d.kind = "advance" BY <2>2 DEF AttackedAfter
  <2>3. CASE d.kind \notin {"attack", "advance"} BY <1>1, <2>3 DEF AttackedAfter
  <2> QED BY <2>1, <2>2, <2>3
<1>9. SearchesAfter(root, d) \subseteq (S \ Leaving(d)) \X (S \ Leaving(d))
  <2>1. CASE d.kind = "search-open"
    <3>1. SearchOf(d) = <<d.actor, d.target>> BY <2>1 DEF SearchOf
    <3>2. Leaving(d) = {} /\ d.actor \in S /\ d.target \in S
      BY <1>3, <1>4, <1>6, <2>1 DEF ExitCauses, DamageKinds
    <3>3. SearchesAfter(root, d) = root.searches \union {SearchOf(d)}
      BY <2>1 DEF SearchesAfter
    <3> QED BY <1>1, <3>1, <3>2, <3>3
  <2>2. CASE d.kind = "search-complete"
    <3>1. Leaving(d) = {} BY <1>4, <2>2 DEF ExitCauses
    <3>2. SearchesAfter(root, d) \subseteq root.searches
      BY <2>2 DEF SearchesAfter
    <3> QED BY <1>1, <3>1, <3>2
  <2>3. CASE d.kind \notin {"search-open", "search-complete"}
    <3>1. SearchesAfter(root, d) =
            {s \in root.searches : {s[1], s[2]} \cap Leaving(d) = {}}
      BY <2>3 DEF SearchesAfter
    <3> SUFFICES ASSUME NEW s \in SearchesAfter(root, d)
                 PROVE  s \in (S \ Leaving(d)) \X (S \ Leaving(d))
      OBVIOUS
    <3>2. s \in S \X S /\ {s[1], s[2]} \cap Leaving(d) = {} BY <1>1, <3>1
    <3>3. PICK a \in S, c \in S : s = <<a, c>> BY <3>2
    <3>4. a \notin Leaving(d) /\ c \notin Leaving(d) BY <3>2, <3>3
    <3> QED BY <3>3, <3>4
  <2> QED BY <2>1, <2>2, <2>3
<1>10. ASSUME NEW o \in StackAfter(root, d)
       PROVE  o \in StackObjects /\ o.by \in S \ Leaving(d) /\ o.at <= n + 1
  <2>1. CASE d.kind = "cast"
    <3>1. Leaving(d) = {} /\ d.actor \in S
      BY <1>3, <1>4, <2>1 DEF ExitCauses, DamageKinds
    <3>2. PutOn(root, d) \in StackObjects
      BY <1>1, <3>1 DEF PutOn, StackObjects
    <3>3. PutOn(root, d).at = n + 1 /\ PutOn(root, d).by = d.actor BY DEF PutOn
    <3>4. StackAfter(root, d) = root.stack \union {PutOn(root, d)}
      BY <2>1 DEF StackAfter
    <3>5. CASE o = PutOn(root, d) BY <1>1, <3>1, <3>2, <3>3, <3>5
    <3>6. CASE o \in root.stack
      <4>1. o \in StackObjects /\ o.at \in Nat BY <1>1, <3>6 DEF StackObjects
      <4> QED BY <1>1, <3>1, <3>6, <4>1
    <3> QED BY <3>4, <3>5, <3>6
  <2>2. CASE d.kind # "cast"
    <3>1. o \in root.stack /\ o.by \notin Leaving(d)
      <4>1. CASE d.kind = "resolve"
        BY <1>4, <4>1 DEF StackAfter, ExitCauses
      <4>2. CASE d.kind # "resolve" BY <2>2, <4>2 DEF StackAfter
      <4> QED BY <4>1, <4>2
    <3>2. o \in StackObjects /\ o.at \in Nat BY <1>1, <3>1 DEF StackObjects
    <3> QED BY <1>1, <3>1, <3>2
  <2> QED BY <2>1, <2>2
<1> HIDE DEF S, n
<1> QED BY <1>5, <1>7, <1>8, <1>9, <1>10 DEF S, n

LEMMA AfterACommand ==
  ASSUME NEW root \in CoreRoots, NEW d \in Drafts, NEW barred \in SUBSET Fickle,
         Owned(root), CoreAdmits(root, d)
  PROVE  LET after == CoreAfter(root, d, barred) IN
         /\ after \in CoreRoots /\ Owned(after)
         /\ after.acceptedCommandCount = root.acceptedCommandCount + 1
<1> DEFINE after == CoreAfter(root, d, barred)
           S == Survivors(root) \ Leaving(d)
           n == root.acceptedCommandCount
<1>1. Survivors(after) = S /\ S \subseteq Players BY SurvivorsAfter
<1>2. /\ n \in Nat /\ root.active \in Survivors(root) /\ root.effects \subseteq Nat
      /\ root.standing \in [Players -> {"active"} \union ExitCauses]
  BY DEF CoreRoots, Owned
<1>3. /\ d.kind = "advance" => NextPlayer(root) \in Survivors(root) /\ Leaving(d) = {}
      /\ \A o \in StackAfter(root, d) :
           o \in StackObjects /\ o.by \in S /\ o.at <= n + 1
      /\ HoldsAfter(root, d) \union AttackedAfter(root, d) \subseteq S
      /\ SearchesAfter(root, d) \subseteq S \X S
  BY PartsAfter
<1>4. root.active \notin Leaving(d) BY DEF CoreAdmits
<1> HIDE DEF S
<1>5. /\ after.active = IF d.kind = "advance" THEN NextPlayer(root) ELSE root.active
      /\ after.stack = StackAfter(root, d) /\ after.holds = HoldsAfter(root, d)
      /\ after.attacked = AttackedAfter(root, d)
      /\ after.searches = SearchesAfter(root, d)
      /\ after.acceptedCommandCount = n + 1
  BY DEF CoreAfter
<1>6. after.active \in S BY <1>2, <1>3, <1>4, <1>5 DEF S
<1>7. Owned(after) BY <1>1, <1>3, <1>5, <1>6 DEF Owned
<1>8. after \in CoreRoots
  <2>1. [p \in Players |-> IF p \in Leaving(d) THEN Cause(d) ELSE root.standing[p]]
          \in [Players -> {"active"} \union ExitCauses]
    BY <1>2 DEF Cause, ExitCauses
  <2>2. (IF d.kind \in HoldKinds THEN root.effects ELSE root.effects \union {n + 1})
          \subseteq Nat
    BY <1>2
  <2>3. StackAfter(root, d) \subseteq StackObjects BY <1>3
  <2>4. SearchesAfter(root, d) \subseteq Players \X Players BY <1>1, <1>3
  <2>5. HoldsAfter(root, d) \subseteq Players /\ AttackedAfter(root, d) \subseteq Players
    BY <1>1, <1>3
  <2>6. (IF d.kind = "advance" THEN NextPlayer(root) ELSE root.active) \in Players
    BY <1>1, <1>5, <1>6
  <2>7. n + 1 \in Nat BY <1>2
  <2> QED
    BY <2>1, <2>2, <2>3, <2>4, <2>5, <2>6, <2>7 DEF CoreAfter, CoreRoots
<1> QED BY <1>5, <1>7, <1>8
-----------------------------------------------------------------------------
(* The strengthening *)

KindOf(i) == receipts[i].requestDigest.kind

(* The first n accepted commands whose effect a table that saw them shows. *)
KeptOf(n) == {i \in 1 .. n : ShownOf(i) /\ ~(i < n /\ KindOf(i + 1) = "undo")}
Shows(root, n) ==
  /\ root.effects = KeptOf(n)
  /\ Players \ Survivors(root) =
       UNION {Leaving(receipts[i].requestDigest) : i \in KeptOf(n)}

(* The checkpoint is the root right before the last command, of which the next
   undo leaves nothing.  Its steward is the one the stack named, or, when a HOLD
   named nobody, whoever acted: by the time no HOLD is left that player is out. *)
CheckpointIsTheLast ==
  checkpoint # NoCheckpoint =>
    /\ checkpoint.revision + 1 = revision
    /\ Owned(checkpoint.coreRoot)
    /\ Shows(checkpoint.coreRoot, checkpoint.revision)
    /\ KindOf(revision) # "undo"
    /\ checkpoint.coreRoot.holds = {} =>
         checkpoint.stewardPlayerId = StackSteward(checkpoint.coreRoot)
    /\ checkpoint.coreRoot.holds # {} /\ core.holds = {} =>
         checkpoint.stewardPlayerId \notin Survivors(core)

Inv ==
  /\ StateStaysLoadable
  /\ Owned(core)
  /\ Shows(core, revision)
  /\ CheckpointIsTheLast

LEMMA Reading ==
  ASSUME Inv
  PROVE  /\ core \in CoreRoots /\ revision \in Nat
         /\ receipts \in Seq(Receipts) /\ Len(receipts) = revision
         /\ DOMAIN receipts = 1 .. revision
         /\ outcome = OutcomesOf(core) /\ lifecycle = LifecycleOf(core)
         /\ requests \subseteq Requests
         /\ checkpoint # NoCheckpoint =>
              /\ checkpoint \in Checkpoints /\ checkpoint.coreRoot \in CoreRoots
              /\ checkpoint.revision \in Nat
              /\ checkpoint.coreRoot.acceptedCommandCount = checkpoint.revision
              /\ checkpoint.seatOutcomes = OutcomesOf(checkpoint.coreRoot)
<1>1. TypeOK /\ ValidState /\ LifecycleMatches BY DEF Inv, StateStaysLoadable
<1>2. core \in CoreRoots /\ receipts \in Seq(Receipts) /\ requests \subseteq Requests
      /\ checkpoint \in Checkpoints \union {NoCheckpoint}
  BY <1>1 DEF TypeOK
<1>3. revision \in Nat BY <1>2 DEF revision, CoreRoots
<1>4. Len(receipts) = revision BY <1>1 DEF ValidState, ReceiptsReachRevision
<1>5. DOMAIN receipts = 1 .. revision BY <1>2, <1>4
<1>6. outcome = OutcomesOf(core) /\ lifecycle = LifecycleOf(core)
  BY <1>1 DEF ValidState, OutcomesMatchCore, LifecycleMatches
<1>7. checkpoint # NoCheckpoint =>
        /\ checkpoint \in Checkpoints /\ checkpoint.coreRoot \in CoreRoots
        /\ checkpoint.revision \in Nat
  BY <1>2 DEF Checkpoints
<1>8. checkpoint # NoCheckpoint =>
        /\ checkpoint.coreRoot.acceptedCommandCount = checkpoint.revision
        /\ checkpoint.seatOutcomes = OutcomesOf(checkpoint.coreRoot)
  BY <1>1 DEF ValidState, CheckpointMatches
<1> QED BY <1>2, <1>3, <1>4, <1>5, <1>6, <1>7, <1>8

LEMMA InitInv == Init => Inv
<1> SUFFICES ASSUME Init PROVE Inv OBVIOUS
<1>1. TurnOrder[1] \in Players BY Table
<1>2. /\ core.active = TurnOrder[1] /\ core.stack = {} /\ core.holds = {}
      /\ core.attacked = {} /\ core.searches = {} /\ core.effects = {}
      /\ core.standing = [p \in Players |-> "active"]
      /\ core.acceptedCommandCount = 0 /\ core \in CoreRoots
  BY <1>1 DEF Init, CoreRoots
<1>3. /\ checkpoint = NoCheckpoint /\ receipts = <<>> /\ lifecycle = "active"
      /\ outcome = [p \in Players |-> "pending"]
  BY DEF Init
<1>4. Survivors(core) = Players BY <1>2 DEF Survivors
<1>5. revision = 0 BY <1>2 DEF revision
<1>6. Len(receipts) = 0 /\ DOMAIN receipts = {} /\ receipts \in Seq(Receipts)
  BY <1>3
<1>7. TypeOK
  <2>1. outcome \in [Players -> Outcomes] BY <1>3 DEF Outcomes
  <2>2. presence \in [Players -> {"connected", "disconnected"}] BY DEF Init
  <2> QED BY <1>2, <1>3, <1>6, <2>1, <2>2 DEF TypeOK, Init
<1>8. OutcomesMatchCore BY <1>2, <1>3 DEF OutcomesMatchCore, OutcomesOf, OutcomeFor
<1>9. LifecycleMatches
  <2>1. ~AtMostOne(Survivors(core)) BY <1>4 DEF AtMostOne
  <2> QED BY <1>3, <2>1 DEF LifecycleMatches, LifecycleOf
<1>10. ReceiptKeysUnique /\ CheckpointMatches /\ ReceiptsReachRevision
  BY <1>3, <1>5, <1>6 DEF ReceiptKeysUnique, CheckpointMatches, ReceiptsReachRevision
<1>11. Owned(core) BY <1>1, <1>2, <1>4 DEF Owned
<1>12. Shows(core, revision)
  <2>1. KeptOf(0) = {} BY DEF KeptOf
  <2> QED BY <1>2, <1>4, <1>5, <2>1 DEF Shows
<1>13. CheckpointIsTheLast BY <1>3 DEF CheckpointIsTheLast
<1> QED BY <1>7, <1>8, <1>9, <1>10, <1>11, <1>12, <1>13
        DEF Inv, StateStaysLoadable, ValidState

(* A step that applies nothing. *)
LEMMA Applied0 ==
  ASSUME Inv, UNCHANGED <<outcome, lifecycle, core, checkpoint, receipts>>,
         presence' \in [Players -> {"connected", "disconnected"}],
         requests' \in SUBSET Requests, acked' \in SUBSET Requests,
         denied' \in SUBSET Requests
  PROVE  Inv'
<1>1. TypeOK' BY DEF Inv, StateStaysLoadable, TypeOK
<1>2. revision' = revision BY DEF revision
<1>3. ValidState' /\ LifecycleMatches'
  BY <1>2 DEF Inv, StateStaysLoadable, ValidState, LifecycleMatches, OutcomesMatchCore,
     ReceiptKeysUnique, CheckpointMatches, ReceiptsReachRevision
<1>4. \A n : KeptOf(n)' = KeptOf(n) BY DEF KeptOf, ShownOf, KindOf
<1>5. Shows(core, revision)' BY <1>2, <1>4 DEF Inv, Shows
<1>6. CheckpointIsTheLast'
  BY <1>2, <1>4 DEF Inv, CheckpointIsTheLast, Shows, KindOf
<1>7. Owned(core)' BY DEF Inv
<1> QED BY <1>1, <1>3, <1>5, <1>6, <1>7 DEF Inv, StateStaysLoadable

-----------------------------------------------------------------------------
(* One more receipt *)

LEMMA RequestFields ==
  ASSUME NEW m \in Requests
  PROVE  m.draft \in Drafts /\ m.baseRevision \in Nat
BY DEF Requests

LEMMA ReceiptTypes ==
  ASSUME Inv, NEW m \in Requests PROVE Receipt(m) \in Receipts
<1>1. m.draft \in Drafts /\ m.baseRevision \in Nat BY RequestFields
<1>2. Digest(m) \in [baseRevision : Nat, kind : Kinds, actor : Players,
                     target : Players, skew : {0, 1}]
  BY <1>1, DraftFields DEF Digest
<1>3. revision + 1 \in Nat BY Reading
<1> QED BY <1>1, <1>2, <1>3, DraftFields DEF Receipt, Receipts

LEMMA OneMoreReceipt ==
  ASSUME Inv, NEW m \in Requests, Stored(m) = {},
         receipts' = Append(receipts, Receipt(m)), revision' = revision + 1
  PROVE  /\ receipts' \in Seq(Receipts) /\ DOMAIN receipts' = 1 .. revision + 1
         /\ ReceiptKeysUnique' /\ ReceiptsReachRevision'
         /\ \A i \in 1 .. revision : receipts'[i] = receipts[i]
         /\ receipts'[revision + 1].requestDigest = Digest(m)
<1> DEFINE r == Receipt(m)
           n == revision
<1>1. /\ n \in Nat /\ receipts \in Seq(Receipts) /\ Len(receipts) = n
      /\ DOMAIN receipts = 1 .. n
  BY Reading
<1>2. m.draft \in Drafts /\ m.baseRevision \in Nat BY RequestFields
<1>3. r \in Receipts BY ReceiptTypes
<1>4. /\ r.participantId = m.draft.participantId /\ r.commandId = m.draft.commandId
      /\ r.acceptedRevision = n + 1 /\ r.requestDigest = Digest(m)
  BY DEF Receipt
<1> HIDE DEF r, n
<1>5. receipts' = Append(receipts, r) BY DEF r
<1>6. /\ receipts' \in Seq(Receipts) /\ DOMAIN receipts' = 1 .. n + 1
      /\ Len(receipts') = n + 1 /\ receipts'[n + 1] = r
      /\ \A i \in 1 .. n : receipts'[i] = receipts[i]
  BY <1>1, <1>3, <1>5
<1>7. \A i \in 1 .. n : ~(/\ receipts[i].participantId = m.draft.participantId
                          /\ receipts[i].commandId = m.draft.commandId)
  BY <1>1 DEF Stored
<1>8. ReceiptKeysUnique /\ ReceiptsReachRevision
  BY DEF Inv, StateStaysLoadable, ValidState
<1>9. ReceiptKeysUnique'
  <2> SUFFICES ASSUME NEW i \in 1 .. n + 1, NEW j \in 1 .. n + 1,
                      receipts'[i].participantId = receipts'[j].participantId,
                      receipts'[i].commandId = receipts'[j].commandId
               PROVE  i = j
    BY <1>6 DEF ReceiptKeysUnique
  <2>1. CASE i \in 1 .. n /\ j \in 1 .. n
    <3>1. receipts'[i] = receipts[i] /\ receipts'[j] = receipts[j] BY <1>6, <2>1
    <3>2. i \in DOMAIN receipts /\ j \in DOMAIN receipts BY <1>1, <2>1
    <3>3. /\ receipts[i].participantId = receipts[j].participantId
          /\ receipts[i].commandId = receipts[j].commandId
      BY <3>1
    <3> QED BY <1>8, <3>2, <3>3 DEF ReceiptKeysUnique
  <2>2. CASE i = n + 1 /\ j \in 1 .. n BY <1>4, <1>6, <1>7, <2>2
  <2>3. CASE j = n + 1 /\ i \in 1 .. n BY <1>4, <1>6, <1>7, <2>3
  <2>4. CASE i = n + 1 /\ j = n + 1 BY <2>4
  <2>5. (i \in 1 .. n \/ i = n + 1) /\ (j \in 1 .. n \/ j = n + 1) BY <1>1
  <2> QED BY <2>1, <2>2, <2>3, <2>4, <2>5
<1>10. ReceiptsReachRevision'
  <2>1. \A i \in 1 .. n : receipts'[i].acceptedRevision = i
    BY <1>1, <1>6, <1>8 DEF ReceiptsReachRevision
  <2>2. receipts'[n + 1].acceptedRevision = n + 1 BY <1>4, <1>6
  <2>3. \A i \in 1 .. n + 1 : i \in 1 .. n \/ i = n + 1 BY <1>1
  <2>4. revision' = n + 1 BY DEF n
  <2> QED BY <1>6, <2>1, <2>2, <2>3, <2>4 DEF ReceiptsReachRevision
<1> QED BY <1>4, <1>6, <1>9, <1>10 DEF n
-----------------------------------------------------------------------------
(* What the table shows after a command and after an undo *)

LEMMA LeavingOfReceipt ==
  ASSUME NEW m \in Requests
  PROVE  Leaving(Digest(m)) = Leaving(m.draft) /\ Digest(m).kind = m.draft.kind
BY DEF Leaving, Digest

(* The receipts of the past tell what they told. *)
LEMMA KeptBefore ==
  ASSUME NEW n \in Nat, NEW k \in Nat, k <= n,
         \A i \in 1 .. n : receipts'[i] = receipts[i]
  PROVE  /\ KeptOf(k)' = KeptOf(k)
         /\ \A root : Shows(root, k) => Shows(root, k)'
<1>1. \A i \in 1 .. n : ShownOf(i)' = ShownOf(i) /\ KindOf(i)' = KindOf(i)
  BY DEF ShownOf, KindOf
<1>2. \A i \in 1 .. k : i \in 1 .. n /\ (i < k => i + 1 \in 1 .. n) OBVIOUS
<1>3. KeptOf(k)' = KeptOf(k) BY <1>1, <1>2 DEF KeptOf
<1>4. KeptOf(k) \subseteq 1 .. n BY <1>2 DEF KeptOf
<1>5. ASSUME NEW root, Shows(root, k) PROVE Shows(root, k)'
  <2>1. root.effects = KeptOf(k)' BY <1>3, <1>5 DEF Shows
  <2>2. UNION {Leaving(receipts'[i].requestDigest) : i \in KeptOf(k)} =
        UNION {Leaving(receipts[i].requestDigest) : i \in KeptOf(k)}
    BY <1>4
  <2> QED BY <1>3, <1>5, <2>1, <2>2 DEF Shows
<1> QED BY <1>3, <1>5

LEMMA KeptAfterCommand ==
  ASSUME NEW n \in Nat, NEW m \in Requests, m.draft.kind # "undo",
         \A i \in 1 .. n : receipts'[i] = receipts[i],
         receipts'[n + 1].requestDigest = Digest(m)
  PROVE  KeptOf(n + 1)' =
           KeptOf(n) \union (IF m.draft.kind \in HoldKinds THEN {} ELSE {n + 1})
<1>1. \A i \in 1 .. n : ShownOf(i)' = ShownOf(i) /\ KindOf(i)' = KindOf(i)
  BY DEF ShownOf, KindOf
<1>2. Digest(m).kind = m.draft.kind BY LeavingOfReceipt
<1>3. KindOf(n + 1)' # "undo" BY <1>2 DEF KindOf
<1>4. ShownOf(n + 1)' <=> m.draft.kind \notin HoldKinds BY <1>2 DEF ShownOf
<1>5. ASSUME NEW i \in 1 .. n PROVE i \in KeptOf(n + 1)' <=> i \in KeptOf(n)
  <2>1. i < n + 1 /\ i \in 1 .. n + 1 OBVIOUS
  <2>2. CASE i < n
    <3>1. i + 1 \in 1 .. n BY <2>2
    <3> QED BY <1>1, <2>1, <2>2, <3>1 DEF KeptOf
  <2>3. CASE i = n BY <1>1, <1>3, <2>1, <2>3 DEF KeptOf
  <2> QED BY <2>2, <2>3
<1>6. n + 1 \in KeptOf(n + 1)' <=> m.draft.kind \notin HoldKinds
  BY <1>4 DEF KeptOf
<1>7. KeptOf(n + 1)' \subseteq 1 .. n + 1 /\ KeptOf(n) \subseteq 1 .. n BY DEF KeptOf
<1>8. \A i \in 1 .. n + 1 : i \in 1 .. n \/ i = n + 1 OBVIOUS
<1>9. n + 1 \notin 1 .. n OBVIOUS
<1> QED BY <1>5, <1>6, <1>7, <1>8, <1>9

LEMMA KeptAfterUndo ==
  ASSUME NEW n \in Nat \ {0}, NEW m \in Requests, m.draft.kind = "undo",
         \A i \in 1 .. n : receipts'[i] = receipts[i], KindOf(n) # "undo",
         receipts'[n + 1].requestDigest = Digest(m)
  PROVE  KeptOf(n + 1)' = KeptOf(n - 1)
<1>1. \A i \in 1 .. n : ShownOf(i)' = ShownOf(i) /\ KindOf(i)' = KindOf(i)
  BY DEF ShownOf, KindOf
<1>2. Digest(m).kind = "undo" BY LeavingOfReceipt
<1>3. KindOf(n + 1)' = "undo" /\ ~ShownOf(n + 1)' BY <1>2 DEF KindOf, ShownOf
<1>4. ASSUME NEW i \in 1 .. n - 1 PROVE i \in KeptOf(n + 1)' <=> i \in KeptOf(n - 1)
  <2>1. i < n + 1 /\ i \in 1 .. n + 1 /\ i \in 1 .. n /\ i + 1 \in 1 .. n OBVIOUS
  <2>2. CASE i < n - 1 BY <1>1, <2>1, <2>2 DEF KeptOf
  <2>3. CASE i = n - 1
    <3>1. KindOf(i + 1)' # "undo"
      <4>1. i + 1 = n BY <2>3
      <4> QED BY <1>1, <2>1, <4>1
    <3>2. ~(i < n - 1) BY <2>3
    <3> QED BY <1>1, <2>1, <3>1, <3>2 DEF KeptOf
  <2> QED BY <2>2, <2>3
<1>5. n \notin KeptOf(n + 1)' /\ n + 1 \notin KeptOf(n + 1)'
  <2>1. n < n + 1 OBVIOUS
  <2> QED BY <1>3, <2>1 DEF KeptOf
<1>6. KeptOf(n + 1)' \subseteq 1 .. n + 1 /\ KeptOf(n - 1) \subseteq 1 .. n - 1
  BY DEF KeptOf
<1>7. \A i \in 1 .. n + 1 : i \in 1 .. n - 1 \/ i = n \/ i = n + 1 OBVIOUS
<1> QED BY ZenonT(40), <1>4, <1>5, <1>6, <1>7

(* A command shows, and makes leave whom it makes leave. *)
LEMMA ShowsAfterCommand ==
  ASSUME NEW n \in Nat, NEW m \in Requests, NEW root \in CoreRoots, NEW barred,
         m.draft.kind # "undo", Shows(root, n), root.acceptedCommandCount = n,
         \A i \in 1 .. n : receipts'[i] = receipts[i],
         receipts'[n + 1].requestDigest = Digest(m)
  PROVE  Shows(CoreAfter(root, m.draft, barred), n + 1)'
<1> DEFINE d == m.draft
           after == CoreAfter(root, d, barred)
           new == IF d.kind \in HoldKinds THEN {} ELSE {n + 1}
<1>1. d \in Drafts BY RequestFields
<1>2. KeptOf(n + 1)' = KeptOf(n) \union new BY KeptAfterCommand
<1>3. after.effects = root.effects \union new BY DEF CoreAfter
<1>4. after.effects = KeptOf(n + 1)' BY <1>2, <1>3 DEF Shows
<1>5. Survivors(after) = Survivors(root) \ Leaving(d) /\ Leaving(d) \subseteq Players
  BY <1>1, SurvivorsAfter, DraftFields
<1>6. Players \ Survivors(after) = (Players \ Survivors(root)) \union Leaving(d)
  BY <1>5
<1>7. UNION {Leaving(receipts'[i].requestDigest) : i \in new} = Leaving(d)
  <2>1. CASE d.kind \in HoldKinds
    BY <2>1 DEF Leaving, HoldKinds, ExitCauses
  <2>2. CASE d.kind \notin HoldKinds
    <3>1. Leaving(receipts'[n + 1].requestDigest) = Leaving(d) BY LeavingOfReceipt
    <3>2. new = {n + 1} BY <2>2
    <3> QED BY <3>1, <3>2
  <2> QED BY <2>1, <2>2
<1>8. UNION {Leaving(receipts'[i].requestDigest) : i \in KeptOf(n)} =
      Players \ Survivors(root)
  <2>1. KeptOf(n) \subseteq 1 .. n BY DEF KeptOf
  <2> QED BY <2>1 DEF Shows
<1> HIDE DEF d, new
<1>9. UNION {Leaving(receipts'[i].requestDigest) : i \in KeptOf(n + 1)'} =
      Players \ Survivors(after)
  BY <1>2, <1>6, <1>7, <1>8
<1> QED BY <1>4, <1>9 DEF Shows, d
-----------------------------------------------------------------------------
(* Each step *)

LEMMA OutcomesAreOutcomes ==
  ASSUME NEW root PROVE OutcomesOf(root) \in [Players -> Outcomes]
BY DEF OutcomesOf, OutcomeFor, Outcomes

LEMMA CoreActorLeaves ==
  ASSUME NEW d \in Drafts, Leaving(d) # {}, d.kind \notin HoldKinds
  PROVE  CoreActor(d) \in Leaving(d)
BY DEF Leaving, CoreActor, ExitCauses, DamageKinds

(* The checkpoint a shared command leaves, seen from the root after it. *)
LEMMA CheckpointAfter ==
  ASSUME Inv, NEW d \in Drafts, NEW barred \in SUBSET Fickle, CoreAdmits(core, d),
         SharedMutation(d)
  PROVE  LET cp == CheckpointFor(d)
             after == CoreAfter(core, d, barred)
         IN  /\ cp \in Checkpoints /\ cp.revision = revision /\ cp.coreRoot = core
             /\ cp.seatOutcomes = OutcomesOf(core)
             /\ core.holds = {} => cp.stewardPlayerId = StackSteward(core)
             /\ core.holds # {} /\ after.holds = {} =>
                  cp.stewardPlayerId \notin Survivors(after)
<1> DEFINE cp == CheckpointFor(d)
           after == CoreAfter(core, d, barred)
<1>1. /\ core \in CoreRoots /\ revision \in Nat /\ outcome = OutcomesOf(core)
      /\ Owned(core)
  BY Reading DEF Inv
<1>2. StackSteward(core) \in Players BY <1>1, StewardSurvives
<1>3. CoreActor(d) \in Players BY DraftFields DEF CoreActor
<1>4. cp.stewardPlayerId = IF core.holds = {} THEN StackSteward(core) ELSE CoreActor(d)
  BY <1>2 DEF CheckpointFor, Steward
<1>5. /\ cp.revision = revision /\ cp.coreRoot = core
      /\ cp.seatOutcomes = OutcomesOf(core)
  BY <1>1 DEF CheckpointFor
<1>6. cp \in Checkpoints
  <2>1. cp.stewardPlayerId \in Players BY <1>2, <1>3, <1>4
  <2>2. outcome \in [Players -> Outcomes] BY <1>1, OutcomesAreOutcomes
  <2> QED BY <1>1, <2>1, <2>2 DEF CheckpointFor, Checkpoints
<1>7. ASSUME core.holds # {}, after.holds = {}
      PROVE  cp.stewardPlayerId \notin Survivors(after)
  <2>1. d.kind \notin HoldKinds BY DEF SharedMutation
  <2>2. HoldsAfter(core, d) = core.holds \ Leaving(d)
    BY <2>1 DEF HoldsAfter, HoldKinds
  <2>3. after.holds = HoldsAfter(core, d) BY DEF CoreAfter
  <2>4. Leaving(d) # {} BY <1>7, <2>2, <2>3
  <2>5. CoreActor(d) \in Leaving(d) BY <2>1, <2>4, CoreActorLeaves
  <2>6. Survivors(after) = Survivors(core) \ Leaving(d) BY <1>1, SurvivorsAfter
  <2> QED BY <1>4, <1>7, <2>5, <2>6
<1> HIDE DEF cp
<1> QED BY <1>1, <1>4, <1>5, <1>6, <1>7 DEF cp

LEMMA CommandStep ==
  ASSUME Inv, NEW m \in requests, AcceptCommand(m) PROVE Inv'
<1> DEFINE d == m.draft
<1>1. /\ m \in Requests /\ core \in CoreRoots /\ revision \in Nat /\ Owned(core)
      /\ Shows(core, revision) /\ TypeOK
  BY Reading DEF Inv, StateStaysLoadable
<1>2. d \in Drafts BY <1>1, RequestFields
<1>3. /\ d.kind # "undo" /\ Stored(m) = {} /\ CoreAdmits(core, d)
      /\ outcome' = OutcomesOf(core') /\ lifecycle' = LifecycleOf(core')
      /\ checkpoint' = IF SharedMutation(d) THEN CheckpointFor(d) ELSE NoCheckpoint
      /\ receipts' = Append(receipts, Receipt(m))
      /\ acked' = acked \union {m} /\ UNCHANGED <<presence, requests, denied>>
  BY DEF AcceptCommand, Accept, Playable, CommandPlayable, DamagePlayable
<1>4. PICK barred \in SUBSET Fickle : core' = CoreAfter(core, d, barred)
  BY DEF AcceptCommand
<1>5. /\ core' \in CoreRoots /\ Owned(core')
      /\ core'.acceptedCommandCount = revision + 1
  BY <1>1, <1>2, <1>3, <1>4, AfterACommand DEF revision
<1>6. revision' = revision + 1 BY <1>5 DEF revision
<1>7. /\ receipts' \in Seq(Receipts) /\ DOMAIN receipts' = 1 .. revision + 1
      /\ ReceiptKeysUnique' /\ ReceiptsReachRevision'
      /\ \A i \in 1 .. revision : receipts'[i] = receipts[i]
      /\ receipts'[revision + 1].requestDigest = Digest(m)
  BY <1>1, <1>3, <1>6, OneMoreReceipt
<1>8. SharedMutation(d) =>
        /\ checkpoint' \in Checkpoints /\ checkpoint'.revision = revision
        /\ checkpoint'.coreRoot = core /\ checkpoint'.seatOutcomes = OutcomesOf(core)
        /\ core.holds = {} => checkpoint'.stewardPlayerId = StackSteward(core)
        /\ core.holds # {} /\ core'.holds = {} =>
             checkpoint'.stewardPlayerId \notin Survivors(core')
  BY <1>2, <1>3, <1>4, CheckpointAfter
<1>9. checkpoint' # NoCheckpoint => SharedMutation(d) BY <1>3
<1>10. TypeOK'
  <2>1. outcome' \in [Players -> Outcomes] BY <1>3, OutcomesAreOutcomes
  <2>2. lifecycle' \in {"active", "finished"} BY <1>3 DEF LifecycleOf
  <2>3. checkpoint' \in Checkpoints \union {NoCheckpoint} BY <1>3, <1>8
  <2>4. /\ presence' \in [Players -> {"connected", "disconnected"}]
        /\ requests' \in SUBSET Requests /\ acked' \in SUBSET Requests
        /\ denied' \in SUBSET Requests
    BY <1>1, <1>3 DEF TypeOK
  <2> QED BY <1>5, <1>7, <2>1, <2>2, <2>3, <2>4 DEF TypeOK
<1>11. OutcomesMatchCore' /\ LifecycleMatches'
  BY <1>3 DEF OutcomesMatchCore, LifecycleMatches, OutcomesOf, LifecycleOf
<1>12. CheckpointMatches'
  <2>1. core.acceptedCommandCount = revision /\ revision < revision + 1
    BY <1>1 DEF revision
  <2> QED BY <1>6, <1>8, <1>9, <2>1 DEF CheckpointMatches, OutcomesOf
<1>13. PICK c, n : c = core /\ n = revision OBVIOUS
<1>14. Shows(CoreAfter(c, d, barred), n + 1)' /\ Shows(c, n)'
  <2>1. /\ n \in Nat /\ c \in CoreRoots /\ Shows(c, n) /\ c.acceptedCommandCount = n
        /\ \A i \in 1 .. n : receipts'[i] = receipts[i]
        /\ receipts'[n + 1].requestDigest = Digest(m)
    BY <1>1, <1>7, <1>13 DEF revision
  <2>2. Shows(c, n)' BY <2>1, KeptBefore
  <2> QED BY <1>1, <1>3, <2>1, <2>2, ShowsAfterCommand
<1>15. Shows(core, revision)'
  BY <1>4, <1>6, <1>13, <1>14 DEF Shows
<1>16. CheckpointIsTheLast'
  <2> SUFFICES ASSUME checkpoint' # NoCheckpoint
               PROVE  /\ checkpoint'.revision + 1 = revision'
                      /\ Owned(checkpoint'.coreRoot)
                      /\ Shows(checkpoint.coreRoot, checkpoint.revision)'
                      /\ KindOf(revision)' # "undo"
                      /\ checkpoint'.coreRoot.holds = {} =>
                           checkpoint'.stewardPlayerId =
                             StackSteward(checkpoint'.coreRoot)
                      /\ checkpoint'.coreRoot.holds # {} /\ core'.holds = {} =>
                           checkpoint'.stewardPlayerId \notin Survivors(core')
    BY DEF CheckpointIsTheLast, Owned, Survivors, StackSteward, Top
  <2>1. SharedMutation(d) BY <1>9
  <2>2. Shows(checkpoint.coreRoot, checkpoint.revision)'
    BY <1>8, <1>13, <1>14, <2>1 DEF Shows
  <2>3. KindOf(revision)' # "undo"
    BY <1>1, <1>3, <1>6, <1>7, LeavingOfReceipt DEF KindOf
  <2> QED BY <1>1, <1>6, <1>8, <2>1, <2>2, <2>3
<1>17. Owned(core)' BY <1>5 DEF Owned, Survivors
<1> QED BY <1>7, <1>10, <1>11, <1>12, <1>15, <1>16, <1>17
        DEF Inv, StateStaysLoadable, ValidState

(* What an undo brings back is the root before the last command. *)
LEMMA UndoStepKeeps ==
  ASSUME Inv, NEW m \in requests, AcceptUndo(m) PROVE Inv'
<1> DEFINE old == checkpoint.coreRoot
<1>1. /\ m \in Requests /\ core \in CoreRoots /\ revision \in Nat /\ TypeOK
      /\ CheckpointIsTheLast
  BY Reading DEF Inv, StateStaysLoadable
<1>2. /\ m.draft.kind = "undo" /\ Stored(m) = {} /\ checkpoint # NoCheckpoint
      /\ core' = [old EXCEPT !.acceptedCommandCount = revision + 1]
      /\ outcome' = checkpoint.seatOutcomes /\ lifecycle' = LifecycleOf(old)
      /\ checkpoint' = NoCheckpoint /\ receipts' = Append(receipts, Receipt(m))
      /\ acked' = acked \union {m} /\ UNCHANGED <<presence, requests, denied>>
  BY DEF AcceptUndo, Accept, Undoable
<1>3. /\ old \in CoreRoots /\ old.acceptedCommandCount = checkpoint.revision
      /\ checkpoint.revision \in Nat /\ outcome' = OutcomesOf(old)
      /\ checkpoint.revision + 1 = revision /\ Owned(old)
      /\ Shows(old, checkpoint.revision) /\ KindOf(revision) # "undo"
  BY <1>1, <1>2, Reading DEF CheckpointIsTheLast
<1>4. /\ core' \in CoreRoots /\ core'.acceptedCommandCount = revision + 1
      /\ core'.active = old.active /\ core'.stack = old.stack
      /\ core'.holds = old.holds /\ core'.attacked = old.attacked
      /\ core'.searches = old.searches /\ core'.standing = old.standing
      /\ core'.effects = old.effects
  <2>1. revision + 1 \in Nat BY <1>1
  <2> HIDE DEF old
  <2> QED BY <1>2, <1>3, <2>1 DEF CoreRoots
<1> HIDE DEF old
<1>5. revision' = revision + 1 BY <1>4 DEF revision
<1>6. /\ receipts' \in Seq(Receipts) /\ DOMAIN receipts' = 1 .. revision + 1
      /\ ReceiptKeysUnique' /\ ReceiptsReachRevision'
      /\ \A i \in 1 .. revision : receipts'[i] = receipts[i]
      /\ receipts'[revision + 1].requestDigest = Digest(m)
  BY <1>1, <1>2, <1>5, OneMoreReceipt
<1>7. Survivors(core') = Survivors(old) BY <1>4 DEF Survivors
<1>8. Owned(core')
  <2>1. \A o \in old.stack : o.at <= revision + 1
    <3> SUFFICES ASSUME NEW o \in old.stack PROVE o.at <= revision + 1 OBVIOUS
    <3>1. o.at \in Nat BY <1>3 DEF CoreRoots, StackObjects
    <3>2. o.at <= checkpoint.revision BY <1>3 DEF Owned
    <3> QED BY <1>1, <1>3, <3>1, <3>2
  <2> QED BY <1>3, <1>4, <1>7, <2>1 DEF Owned
<1>9. OutcomesOf(old) = OutcomesOf(core') /\ LifecycleOf(old) = LifecycleOf(core')
  BY <1>4, <1>7 DEF OutcomesOf, LifecycleOf
<1>10. TypeOK'
  <2>1. outcome' \in [Players -> Outcomes] BY <1>3, OutcomesAreOutcomes
  <2>2. lifecycle' \in {"active", "finished"} BY <1>2 DEF LifecycleOf
  <2>3. /\ presence' \in [Players -> {"connected", "disconnected"}]
        /\ requests' \in SUBSET Requests /\ acked' \in SUBSET Requests
        /\ denied' \in SUBSET Requests
    BY <1>1, <1>2 DEF TypeOK
  <2> QED BY <1>2, <1>4, <1>6, <2>1, <2>2, <2>3 DEF TypeOK
<1>11. OutcomesMatchCore' /\ LifecycleMatches' /\ CheckpointMatches'
  BY <1>2, <1>3, <1>9 DEF OutcomesMatchCore, LifecycleMatches, CheckpointMatches,
     OutcomesOf, LifecycleOf
<1>12. PICK c, n : c = old /\ n = revision OBVIOUS
<1>13. Shows(core, revision)'
  <2>1. n \in Nat \ {0} /\ checkpoint.revision = n - 1 BY <1>1, <1>3, <1>12
  <2>2. KeptOf(n + 1)' = KeptOf(n - 1)
    BY <1>1, <1>2, <1>3, <1>6, <1>12, <2>1, KeptAfterUndo
  <2>3. KeptOf(n - 1) \subseteq 1 .. n BY <2>1 DEF KeptOf
  <2>4. UNION {Leaving(receipts'[i].requestDigest) : i \in KeptOf(n - 1)} =
        UNION {Leaving(receipts[i].requestDigest) : i \in KeptOf(n - 1)}
    BY <1>6, <1>12, <2>3
  <2>5. /\ core'.effects = KeptOf(n - 1)
        /\ Players \ Survivors(core') =
             UNION {Leaving(receipts[i].requestDigest) : i \in KeptOf(n - 1)}
    BY <1>3, <1>4, <1>7, <2>1 DEF Shows
  <2>6. revision' = n + 1 BY <1>5, <1>12
  <2>7. Survivors(core)' = Survivors(core') BY DEF Survivors
  <2> QED BY <2>2, <2>4, <2>5, <2>6, <2>7 DEF Shows
<1>14. CheckpointIsTheLast' BY <1>2 DEF CheckpointIsTheLast
<1>15. Owned(core)' BY <1>8 DEF Owned, Survivors
<1> QED BY <1>6, <1>10, <1>11, <1>13, <1>14, <1>15
        DEF Inv, StateStaysLoadable, ValidState

LEMMA NextInv == Inv /\ [Next]_vars => Inv'
<1> SUFFICES ASSUME Inv, [Next]_vars PROVE Inv' OBVIOUS
<1>1. /\ presence \in [Players -> {"connected", "disconnected"}]
      /\ requests \subseteq Requests /\ acked \subseteq Requests
      /\ denied \subseteq Requests
  BY DEF Inv, StateStaysLoadable, TypeOK
<1>2. ASSUME NEW m \in requests, AnswerStored(m) \/ Refuse(m) PROVE Inv'
  <2>1. /\ UNCHANGED <<outcome, lifecycle, core, checkpoint, receipts>>
        /\ UNCHANGED <<presence, requests>>
    BY <1>2 DEF AnswerStored, Refuse, serverVars, roomVars
  <2>2. acked' \subseteq acked \union {m} /\ denied' \subseteq denied \union {m}
    BY <1>2 DEF AnswerStored, Refuse
  <2> QED BY <1>1, <2>1, <2>2, Applied0
<1>3. ASSUME NEW p \in Players, Rejoin(p) \/ Disconnect(p) PROVE Inv'
  <2>1. /\ UNCHANGED <<outcome, lifecycle, core, checkpoint, receipts>>
        /\ UNCHANGED <<requests, acked, denied>>
    BY <1>3 DEF Rejoin, Disconnect, answerVars
  <2>2. presence' \in [Players -> {"connected", "disconnected"}]
    BY <1>1, <1>3 DEF Rejoin, Disconnect
  <2> QED BY <1>1, <2>1, <2>2, Applied0
<1>4. ASSUME NEW d \in Drafts, NEW base \in 0 .. revision, Author(d, base) PROVE Inv'
  <2>1. /\ UNCHANGED <<outcome, lifecycle, core, checkpoint, receipts>>
        /\ UNCHANGED <<presence, acked, denied>>
    BY <1>4 DEF Author, serverVars, roomVars, answerVars
  <2>2. base \in Nat BY Reading
  <2>3. requests' \subseteq Requests BY <1>1, <1>4, <2>2 DEF Author, Requests
  <2> QED BY <1>1, <2>1, <2>3, Applied0
<1>5. CASE UNCHANGED vars BY <1>1, <1>5, Applied0 DEF vars
<1> QED BY <1>2, <1>3, <1>4, <1>5, CommandStep, UndoStepKeeps DEF Next

LEMMA Always == Spec => []Inv
BY InitInv, NextInv, PTL DEF Spec
-----------------------------------------------------------------------------
(* The theorems *)

(* No order of commands, undos, departures, repetitions and disconnects leaves a
   state that the next handler or the store refuses (validateInternal), and the
   lifecycle tells how many are left, also when an undo brings players back. *)
THEOREM StatesStayLoadable == Spec => []StateStaysLoadable
<1>1. Inv => StateStaysLoadable BY DEF Inv
<1> QED BY <1>1, Always, PTL

(* The table shows the accepted commands that were not undone, and those who
   left are the ones these commands made leave: an undo (checkpointFor,
   handleOnlineVariableUndo) takes back one command, all of it, and no more. *)
THEOREM TablesShowTheLog == Spec => []TableIsTheLog
<1>1. Inv => TableIsTheLog
  <2> SUFFICES ASSUME Inv PROVE TableIsTheLog OBVIOUS
  <2> DEFINE kept == {i \in DOMAIN receipts : ShownOf(i) /\ ~Undone(i)}
  <2>1. revision \in Nat /\ DOMAIN receipts = 1 .. revision BY Reading
  <2>2. \A i \in 1 .. revision : i < revision <=> i + 1 \in 1 .. revision BY <2>1
  <2>3. kept = KeptOf(revision) BY <2>1, <2>2 DEF KeptOf, Undone, KindOf
  <2> QED BY <2>3 DEF Inv, Shows, TableIsTheLog
<1> QED BY <1>1, Always, PTL

(* Neither the turn, the top of the stack, a HOLD, an attack nor a choice ever
   belongs to a player who left (handlePlayerExit), also on the table that an
   undo brings back. *)
THEOREM TheTableMovesOn == Spec => []SomebodyMovesOn
<1>1. Inv => SomebodyMovesOn
  <2> SUFFICES ASSUME Inv PROVE SomebodyMovesOn OBVIOUS
  <2>1. core \in CoreRoots /\ Owned(core) BY Reading DEF Inv
  <2>2. StackSteward(core) \in Survivors(core) BY <2>1, StewardSurvives
  <2> QED BY <2>1, <2>2 DEF SomebodyMovesOn, Owned
<1> QED BY <1>1, Always, PTL

(* An undo never brings a HOLD back and leaves the table with the player who
   undid (coreUndoAuthorizedPlayerV1): a checkpoint taken under a HOLD names a
   player who is out once no HOLD is left, and whoever is out undoes nothing. *)
THEOREM UndoerStaysSteward == Spec => UndoKeepsTheSteward
<1>1. ASSUME Inv, [Next]_vars, UndoStep
      PROVE  /\ Steward(core) = Steward(core')
             /\ Steward(core) = receipts'[Len(receipts')].participantId
  <2>1. /\ receipts \in Seq(Receipts) /\ core \in CoreRoots /\ Owned(core)
        /\ revision \in Nat /\ DOMAIN receipts = 1 .. revision
        /\ Len(receipts) = revision /\ requests \subseteq Requests
        /\ CheckpointIsTheLast
    BY <1>1, Reading DEF Inv
  <2>2. receipts' # receipts BY <2>1, <1>1 DEF UndoStep
  <2>3. PICK m \in requests : AcceptCommand(m) \/ AcceptUndo(m)
    BY <1>1, <2>2 DEF Next, vars, AnswerStored, Refuse, Rejoin, Disconnect, Author,
       serverVars, roomVars
  <2>4. receipts' = Append(receipts, Receipt(m)) /\ Stored(m) = {}
    BY <2>3 DEF AcceptCommand, AcceptUndo, Accept
  <2>5. receipts'[Len(receipts')] = Receipt(m) BY <2>1, <2>4
  <2>6. /\ Receipt(m).participantId = m.draft.participantId
        /\ Receipt(m).requestDigest.kind = m.draft.kind
    BY DEF Receipt, Digest
  <2>7. m.draft.kind = "undo" BY <1>1, <2>5, <2>6 DEF UndoStep
  <2>8. AcceptUndo(m) BY <2>3, <2>7 DEF AcceptCommand
  <2> DEFINE p == m.draft.participantId
             old == checkpoint.coreRoot
  <2>9. /\ checkpoint # NoCheckpoint /\ checkpoint.stewardPlayerId = p
        /\ Steward(core) = p
        /\ core' = [old EXCEPT !.acceptedCommandCount = revision + 1]
    BY <2>8 DEF AcceptUndo, Undoable
  <2>10. p \in Players BY <2>1, RequestFields, DraftFields
  <2>11. core.holds = {} /\ StackSteward(core) = p BY <2>9, <2>10 DEF Steward
  <2>12. p \in Survivors(core) BY <2>1, <2>11, StewardSurvives
  <2>13. old.holds = {} /\ StackSteward(old) = p
    BY <2>1, <2>9, <2>11, <2>12 DEF CheckpointIsTheLast
  <2>14. old \in CoreRoots BY <1>1, <2>9, Reading
  <2>15. core'.holds = old.holds /\ core'.stack = old.stack /\ core'.active = old.active
    <3> HIDE DEF old
    <3> QED BY <2>9, <2>14 DEF CoreRoots
  <2>16. StackSteward(core') = StackSteward(old)
    BY <2>15 DEF StackSteward, Top
  <2>17. Steward(core') = p BY <2>13, <2>15, <2>16 DEF Steward
  <2> QED BY <2>5, <2>6, <2>9, <2>17
<1> QED BY <1>1, Always, PTL DEF Spec, UndoKeepsTheSteward
-----------------------------------------------------------------------------
(* The room as a command log *)

(* A request is always sent the same way, by the client or through the binder. *)
ComesOneWay ==
  \A d, e \in Drafts :
    /\ d.participantId = e.participantId /\ d.commandId = e.commandId
    /\ d.kind = e.kind /\ d.actor = e.actor /\ d.target = e.target
    /\ d.skew = e.skew
    => d.bound = e.bound

Acceptable(m) == IF m.draft.kind = "undo" THEN Undoable(m) ELSE Playable(m)

(* What was applied was acknowledged at once.  What was refused is refused for a
   reason that nothing undoes: only an accepted command changes whether it can be
   played, and then its base is old. *)
LogInv ==
  /\ \A m \in requests : m.baseRevision <= revision
  /\ \A i \in DOMAIN receipts : \E m \in acked : RequestIn(m) = RequestOf(receipts[i])
  /\ \A m \in denied :
       /\ m \in requests /\ m.draft.cap = m.draft.participantId
       /\ m.baseRevision < revision \/ Stored(m) # {} \/ ~Acceptable(m)

LEMMA LogInvInit == Init => LogInv
BY DEF Init, LogInv

LEMMA SameRequest ==
  ASSUME ComesOneWay, NEW m \in Requests, NEW k \in Requests,
         RequestIn(m) = RequestIn(k), m.draft.cap = m.draft.participantId,
         k.draft.cap = k.draft.participantId
  PROVE  m = k
<1>1. m.draft \in Drafts /\ k.draft \in Drafts BY RequestFields
<1>2. /\ m.draft.participantId = k.draft.participantId
      /\ m.draft.commandId = k.draft.commandId /\ Digest(m) = Digest(k)
  BY DEF RequestIn
<1>3. /\ m.baseRevision = k.baseRevision /\ m.draft.kind = k.draft.kind
      /\ m.draft.actor = k.draft.actor /\ m.draft.target = k.draft.target
      /\ m.draft.skew = k.draft.skew
  BY <1>2 DEF Digest
<1>4. m.draft.bound = k.draft.bound BY <1>1, <1>2, <1>3 DEF ComesOneWay
<1>5. m.draft.cap = k.draft.cap BY <1>2
<1>6. m.draft = k.draft
  <2>1. m.draft \in DraftSet /\ k.draft \in DraftSet BY <1>1
  <2> QED BY <1>2, <1>3, <1>4, <1>5, <2>1 DEF DraftSet
<1> QED BY <1>3, <1>6 DEF Requests

(* What a step that applies nothing leaves of it. *)
LEMMA StillRefused ==
  ASSUME UNCHANGED <<outcome, lifecycle, core, checkpoint, receipts>>
  PROVE  /\ revision' = revision
         /\ \A m : Stored(m)' = Stored(m) /\ (Acceptable(m)' <=> Acceptable(m))
<1>1. revision' = revision BY DEF revision
<1>2. \A m : Stored(m)' = Stored(m) BY DEF Stored
<1>3. \A m : SeatPending(m)' = SeatPending(m) BY DEF SeatPending
<1>4. \A m : Acceptable(m)' <=> Acceptable(m)
  BY <1>1, <1>3 DEF Acceptable, Undoable, Playable, CommandPlayable, DamagePlayable,
     Current
<1> QED BY <1>1, <1>2, <1>4

LEMMA LogInvApplied0 ==
  ASSUME LogInv, UNCHANGED <<outcome, lifecycle, core, checkpoint, receipts>>,
         requests \subseteq requests', acked \subseteq acked',
         \A m \in requests' \ requests : m.baseRevision <= revision,
         \A m \in denied' \ denied :
           /\ m \in requests /\ m.draft.cap = m.draft.participantId
           /\ Stored(m) # {} \/ ~Acceptable(m)
  PROVE  LogInv'
<1>1. /\ revision' = revision
      /\ \A m : Stored(m)' = Stored(m) /\ (Acceptable(m)' <=> Acceptable(m))
  BY StillRefused
<1>2. \A m \in requests' : m.baseRevision <= revision BY DEF LogInv
<1>3. \A i \in DOMAIN receipts : \E m \in acked' : RequestIn(m) = RequestOf(receipts[i])
  BY DEF LogInv
<1>4. \A m \in denied' :
       /\ m \in requests /\ m.draft.cap = m.draft.participantId
       /\ m.baseRevision < revision \/ Stored(m) # {} \/ ~Acceptable(m)
  BY DEF LogInv
<1> QED BY <1>1, <1>2, <1>3, <1>4 DEF LogInv

LEMMA LogInvAccept ==
  ASSUME Inv, Inv', LogInv, NEW m \in requests, AcceptCommand(m) \/ AcceptUndo(m)
  PROVE  LogInv'
<1>1. /\ receipts' = Append(receipts, Receipt(m)) /\ acked' = acked \union {m}
      /\ UNCHANGED <<requests, denied>>
  BY DEF AcceptCommand, AcceptUndo, Accept
<1>2. /\ receipts \in Seq(Receipts) /\ revision \in Nat /\ requests \subseteq Requests
      /\ DOMAIN receipts = 1 .. revision /\ Len(receipts) = revision
  BY Reading
<1>3. DOMAIN receipts' = 1 .. revision' /\ Len(receipts') = revision' /\ revision' \in Nat
  <2>1. Len(receipts') = revision'
    BY DEF Inv, StateStaysLoadable, ValidState, ReceiptsReachRevision
  <2>2. Receipt(m) \in Receipts BY <1>2, ReceiptTypes
  <2> QED BY <1>1, <1>2, <2>1, <2>2
<1>4. /\ Len(receipts') = revision + 1 /\ receipts'[revision + 1] = Receipt(m)
      /\ \A i \in 1 .. revision : receipts'[i] = receipts[i]
  BY <1>1, <1>2
<1>5. \A k \in requests' : k.baseRevision < revision'
  <2>1. \A k \in requests : k.baseRevision \in Nat /\ k.baseRevision <= revision
    BY <1>2, RequestFields DEF LogInv
  <2> QED BY <1>1, <1>2, <1>3, <1>4, <2>1
<1>6. RequestOf(Receipt(m)) = RequestIn(m) BY DEF RequestOf, RequestIn, Receipt
<1>7. ASSUME NEW i \in DOMAIN receipts'
      PROVE  \E k \in acked' : RequestIn(k) = RequestOf(receipts'[i])
  <2>1. i \in 1 .. revision \/ i = revision + 1 BY <1>2, <1>3, <1>4
  <2>2. CASE i \in 1 .. revision
    BY <1>1, <1>2, <1>4, <2>2 DEF LogInv
  <2>3. CASE i = revision + 1 BY <1>1, <1>4, <1>6, <2>3
  <2> QED BY <2>1, <2>2, <2>3
<1>8. \A k \in requests' : k.baseRevision <= revision'
  BY <1>1, <1>2, <1>3, <1>5, RequestFields
<1>9. \A k \in denied' : k \in requests' /\ k.draft.cap = k.draft.participantId
  BY <1>1 DEF LogInv
<1> QED BY <1>5, <1>7, <1>8, <1>9 DEF LogInv
LEMMA LogNext ==
  ASSUME Inv, LogInv, [Next]_vars, Inv' PROVE LogInv'
<1>1. CASE \E m \in requests : AcceptCommand(m) \/ AcceptUndo(m) BY <1>1, LogInvAccept
<1>2. ASSUME NEW m \in requests, AnswerStored(m) \/ Refuse(m) PROVE LogInv'
  <2>1. UNCHANGED <<outcome, lifecycle, core, checkpoint, receipts, requests>>
    BY <1>2 DEF AnswerStored, Refuse, serverVars, roomVars
  <2>2. acked \subseteq acked' BY <1>2 DEF AnswerStored, Refuse
  <2>3. \A k \in denied' \ denied : k = m BY <1>2 DEF AnswerStored, Refuse
  <2>4. m.draft.cap = m.draft.participantId BY <1>2 DEF AnswerStored, Refuse, Admitted
  <2>5. denied' # denied => Stored(m) # {} \/ ~Acceptable(m)
    BY <1>2 DEF AnswerStored, Refuse, Acceptable
  <2>6. \A k \in denied' \ denied :
          /\ k \in requests /\ k.draft.cap = k.draft.participantId
          /\ Stored(k) # {} \/ ~Acceptable(k)
    BY <2>3, <2>4, <2>5
  <2> QED BY <2>1, <2>2, <2>6, LogInvApplied0
<1>3. CASE \/ \E p \in Players : Rejoin(p) \/ Disconnect(p)
           \/ UNCHANGED vars
  BY <1>3, LogInvApplied0 DEF Rejoin, Disconnect, answerVars, vars
<1>4. ASSUME NEW d \in Drafts, NEW base \in 0 .. revision, Author(d, base) PROVE LogInv'
  <2>1. base <= revision /\ revision \in Nat BY Reading
  <2>2. /\ UNCHANGED <<outcome, lifecycle, core, checkpoint, receipts, acked, denied>>
        /\ requests' = requests \union {[draft |-> d, baseRevision |-> base]}
    BY <1>4 DEF Author, serverVars, roomVars, answerVars
  <2>3. \A m \in requests' \ requests : m.baseRevision <= revision BY <2>1, <2>2
  <2> QED BY <2>2, <2>3, LogInvApplied0
<1> QED BY <1>1, <1>2, <1>3, <1>4 DEF Next

LogOf(rs) == [i \in DOMAIN rs |-> RequestOf(rs[i])]

LEMMA LogOfAppended ==
  ASSUME NEW rs \in Seq(Receipts), NEW r \in Receipts
  PROVE  LogOf(Append(rs, r)) = Append(LogOf(rs), RequestOf(r))
<1> DEFINE n == Len(rs)
<1>1. n \in Nat /\ DOMAIN rs = 1 .. n OBVIOUS
<1>2. /\ DOMAIN Append(rs, r) = 1 .. n + 1 /\ Append(rs, r)[n + 1] = r
      /\ \A i \in 1 .. n : Append(rs, r)[i] = rs[i]
  OBVIOUS
<1>3. LogOf(rs) = [i \in 1 .. n |-> RequestOf(rs[i])] BY <1>1 DEF LogOf
<1>4. LogOf(rs) \in Seq({RequestOf(s) : s \in Receipts}) /\ Len(LogOf(rs)) = n
  <2>1. \A i \in 1 .. n : rs[i] \in Receipts BY <1>1
  <2>2. LogOf(rs) \in [1 .. n -> {RequestOf(s) : s \in Receipts}] BY <1>3, <2>1
  <2> QED BY <1>1, <2>2
<1> HIDE DEF n
<1>5. Append(LogOf(rs), RequestOf(r)) =
        [i \in 1 .. n + 1 |-> IF i = n + 1 THEN RequestOf(r) ELSE LogOf(rs)[i]]
  <2> DEFINE S == {RequestOf(s) : s \in Receipts}
             L == LogOf(rs)
             e == RequestOf(r)
  <2>1. L \in Seq(S) /\ Len(L) = n /\ e \in S BY <1>4
  <2> HIDE DEF S, L, e
  <2>2. /\ Append(L, e) \in Seq(S) /\ Len(Append(L, e)) = n + 1
        /\ Append(L, e)[n + 1] = e /\ \A i \in 1 .. n : Append(L, e)[i] = L[i]
    BY <1>1, <2>1
  <2> DEFINE F == [i \in 1 .. n + 1 |-> IF i = n + 1 THEN e ELSE L[i]]
  <2>3. F \in Seq(S) /\ Len(F) = n + 1
    <3>1. \A i \in 1 .. n + 1 : i # n + 1 => i \in 1 .. n BY <1>1
    <3>2. \A i \in 1 .. n : L[i] \in S BY <2>1
    <3>3. F \in [1 .. n + 1 -> S] BY <2>1, <3>1, <3>2
    <3>4. n + 1 \in Nat BY <1>1
    <3> QED BY <3>3, <3>4
  <2>4. \A i \in 1 .. n + 1 : Append(L, e)[i] = F[i] BY <1>1, <2>2
  <2> HIDE DEF F
  <2>5. Append(L, e) = F BY <2>2, <2>3, <2>4, SeqEqual
  <2> QED BY <2>5 DEF F, L, e
<1>6. LogOf(Append(rs, r)) =
        [i \in 1 .. n + 1 |-> IF i = n + 1 THEN RequestOf(r) ELSE LogOf(rs)[i]]
  <2>1. LogOf(Append(rs, r)) = [i \in 1 .. n + 1 |-> RequestOf(Append(rs, r)[i])]
    BY <1>2 DEF LogOf
  <2>2. \A i \in 1 .. n + 1 : i \in 1 .. n \/ i = n + 1 BY <1>1
  <2>3. \A i \in 1 .. n + 1 : RequestOf(Append(rs, r)[i]) =
          IF i = n + 1 THEN RequestOf(r) ELSE LogOf(rs)[i]
    BY <1>2, <1>3, <2>2
  <2> QED BY <2>1, <2>3
<1> QED BY <1>5, <1>6

(* Whatever is lost, repeated, reordered, refused or undone: a request is applied
   once at most, was applied when it is acknowledged, and is never applied when it
   was refused for good; an undone command counts as applied. *)
THEOREM ImplementsCommandLog ==
  ASSUME ComesOneWay PROVE Spec => KeepsCommandLog
<1>1. Init => Log!LogInit
  <2> SUFFICES ASSUME Init PROVE Log!LogInit OBVIOUS
  <2>1. [i \in DOMAIN receipts |-> RequestOf(receipts[i])] = <<>> BY DEF Init
  <2> QED BY <2>1 DEF Init, Log!LogInit
<1>2. Inv /\ LogInv /\ [Next]_vars => [Log!LogNext]_(Log!logVars)
  <2> SUFFICES ASSUME Inv, LogInv, [Next]_vars
               PROVE  Log!LogNext \/ UNCHANGED Log!logVars
    OBVIOUS
  <2>1. /\ receipts \in Seq(Receipts) /\ revision \in Nat /\ requests \subseteq Requests
        /\ DOMAIN receipts = 1 .. revision /\ ReceiptKeysUnique
    BY Reading DEF Inv, StateStaysLoadable, ValidState
  <2>2. ASSUME NEW m \in requests, AcceptCommand(m) \/ AcceptUndo(m)
        PROVE  Log!LogNext
    <3> DEFINE q == RequestIn(m)
               authored == {RequestIn(k) : k \in {r \in requests :
                                            r.draft.cap = r.draft.participantId}}
               log == [i \in DOMAIN receipts |-> RequestOf(receipts[i])]
    <3>1. /\ m.draft.cap = m.draft.participantId /\ Stored(m) = {}
          /\ Acceptable(m) /\ m.baseRevision = revision
          /\ receipts' = Append(receipts, Receipt(m)) /\ acked' = acked \union {m}
          /\ UNCHANGED <<requests, denied>>
      BY <2>2 DEF AcceptCommand, AcceptUndo, Accept, Admitted, Acceptable, Playable,
         CommandPlayable, DamagePlayable, Undoable, Current
    <3>2. q \in authored BY <3>1
    <3>3. q \notin {RequestIn(k) : k \in denied}
      <4> SUFFICES ASSUME NEW k \in denied, RequestIn(k) = q PROVE FALSE OBVIOUS
      <4>1. /\ k \in requests /\ k.draft.cap = k.draft.participantId
            /\ k.baseRevision < revision \/ Stored(k) # {} \/ ~Acceptable(k)
        BY DEF LogInv
      <4>2. k = m BY <2>1, <3>1, <4>1, SameRequest
      <4> QED BY <2>1, <3>1, <4>1, <4>2
    <3>4. \A i \in DOMAIN receipts :
            <<RequestOf(receipts[i]).participantId, RequestOf(receipts[i]).commandId>>
              # <<q.participantId, q.commandId>>
      BY <3>1 DEF Stored, RequestOf, RequestIn
    <3>5. [i \in DOMAIN receipts' |-> RequestOf(receipts'[i])] = Append(log, q)
      <4>1. Receipt(m) \in Receipts BY <2>1, ReceiptTypes
      <4>2. RequestOf(Receipt(m)) = q BY DEF RequestOf, RequestIn, Receipt
      <4>3. LogOf(receipts') = Append(LogOf(receipts), q)
        BY <2>1, <3>1, <4>1, <4>2, LogOfAppended
      <4> QED BY <4>3 DEF LogOf
    <3>6. {RequestIn(k) : k \in acked'} = {RequestIn(k) : k \in acked} \union {q}
      BY <3>1
    <3>7. Log!Commit(q)
      <4>1. \A a \in Log!Applied :
              <<a.participantId, a.commandId>> # <<q.participantId, q.commandId>>
        <5> SUFFICES ASSUME NEW i \in DOMAIN receipts
                     PROVE  <<log[i].participantId, log[i].commandId>>
                              # <<q.participantId, q.commandId>>
          BY DEF Log!Applied
        <5> QED BY <3>4
      <4>2. UNCHANGED <<authored, {RequestIn(k) : k \in denied}>> BY <3>1
      <4> HIDE DEF q
      <4> QED BY <3>3, <3>5, <3>6, <4>1, <4>2 DEF Log!Commit
    <3> QED BY <3>2, <3>7 DEF Log!LogNext
  <2>3. ASSUME NEW m \in requests, AnswerStored(m) \/ Refuse(m)
        PROVE  Log!LogNext \/ UNCHANGED Log!logVars
    <3> DEFINE q == RequestIn(m)
    <3>1. /\ m.draft.cap = m.draft.participantId /\ UNCHANGED <<receipts, requests>>
      BY <2>3 DEF AnswerStored, Refuse, Admitted, serverVars
    <3>2. CASE denied' = denied /\ acked' = acked BY <3>1, <3>2 DEF Log!logVars
    <3>3. CASE /\ denied' = denied \union {m} /\ acked' = acked
               /\ \A i \in DOMAIN receipts : RequestOf(receipts[i]) # q
      <4>1. {RequestIn(k) : k \in denied'} = {RequestIn(k) : k \in denied} \union {q}
        BY <3>3
      <4>2. Log!Deny(q) BY <3>1, <3>3, <4>1 DEF Log!Deny, Log!Applied
      <4> QED BY <3>1, <4>2 DEF Log!LogNext
    <3>4. CASE /\ acked' = acked \union {m} /\ denied' = denied
               /\ \E i \in DOMAIN receipts : RequestOf(receipts[i]) = q
      <4>1. \E k \in acked : RequestIn(k) = q BY <3>4 DEF LogInv
      <4>2. {RequestIn(k) : k \in acked'} = {RequestIn(k) : k \in acked}
        BY <3>4, <4>1
      <4> QED BY <3>1, <3>4, <4>2 DEF Log!logVars
    <3>5. CASE Refuse(m)
      <4>1. denied' = denied \union {m} /\ acked' = acked /\ Stored(m) = {}
        BY <3>5 DEF Refuse
      <4>2. \A i \in DOMAIN receipts : RequestOf(receipts[i]) # q
        BY <4>1 DEF Stored, RequestOf, RequestIn
      <4> QED BY <3>3, <4>1, <4>2
    <3>6. CASE AnswerStored(m)
      <4>1. PICK i \in Stored(m) :
              IF receipts[i].requestDigest = Digest(m)
              THEN acked' = acked \union {m} /\ UNCHANGED denied
              ELSE denied' = denied \union {m} /\ UNCHANGED acked
        BY <3>6 DEF AnswerStored
      <4>2. /\ i \in DOMAIN receipts
            /\ receipts[i].participantId = m.draft.participantId
            /\ receipts[i].commandId = m.draft.commandId
        BY DEF Stored
      <4>3. CASE receipts[i].requestDigest = Digest(m)
        <5>1. RequestOf(receipts[i]) = q BY <4>2, <4>3 DEF RequestOf, RequestIn
        <5> QED BY <3>4, <4>1, <4>2, <4>3, <5>1
      <4>4. CASE receipts[i].requestDigest # Digest(m)
        <5>1. ASSUME NEW j \in DOMAIN receipts, RequestOf(receipts[j]) = q
              PROVE  FALSE
          <6>1. /\ receipts[j].participantId = m.draft.participantId
                /\ receipts[j].commandId = m.draft.commandId
                /\ receipts[j].requestDigest = Digest(m)
            BY <5>1 DEF RequestOf, RequestIn
          <6>2. j = i BY <2>1, <4>2, <6>1 DEF ReceiptKeysUnique
          <6> QED BY <4>4, <6>1, <6>2
        <5> QED BY <3>3, <4>1, <4>4, <5>1
      <4> QED BY <4>3, <4>4
    <3> QED BY <2>3, <3>5, <3>6
  <2>4. ASSUME NEW d \in Drafts, NEW base \in 0 .. revision, Author(d, base)
        PROVE  Log!LogNext
    <3>1. /\ UNCHANGED <<receipts, acked, denied>> /\ requests \subseteq requests'
      BY <2>4 DEF Author, serverVars, answerVars
    <3>2. Log!Author BY <3>1 DEF Log!Author
    <3> QED BY <3>2 DEF Log!LogNext
  <2>5. CASE (\E p \in Players : Rejoin(p) \/ Disconnect(p)) \/ UNCHANGED vars
    BY <2>5 DEF Rejoin, Disconnect, answerVars, vars, Log!logVars
  <2> QED BY <2>2, <2>3, <2>4, <2>5 DEF Next
<1>3. Inv /\ LogInv /\ [Next]_vars => LogInv' BY NextInv, LogNext
<1> QED BY <1>1, <1>2, <1>3, InitInv, LogInvInit, NextInv, PTL DEF Spec, KeepsCommandLog
==============================================================================
