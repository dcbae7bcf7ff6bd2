----------------------------- MODULE Core_proofs -----------------------------
(***************************************************************************)
(* The Core, for every number of players and objects: first the turns and  *)
(* windows both modules share, then TurnEngine with every operation of the *)
(* library, then CoreCommands with what a client can reach.                *)
(***************************************************************************)
EXTENDS TurnEngine, CoreCommands, SequenceTheorems, FiniteSetTheorems,
        WellFoundedInduction, TLAPS

-----------------------------------------------------------------------------
(* Counting around the table *)

LEMMA Rest ==
  ASSUME NEW n \in Nat \ {0}, NEW x \in Nat
  PROVE  x % n \in 0 .. n - 1 /\ x \div n \in Int /\ x = n * (x \div n) + (x % n)
<1>1. x % n \in 0 .. n - 1 OBVIOUS
<1>2. x \div n \in Int OBVIOUS
<1>3. x = n * (x \div n) + (x % n) OBVIOUS
<1> QED BY <1>1, <1>2, <1>3

LEMMA Multiple ==
  ASSUME NEW n \in Nat \ {0}, NEW d \in Int, n * d \in 1 - n .. n - 1 PROVE d = 0
<1>1. d >= 1 => n * d >= n OBVIOUS
<1>2. d <= -1 => n * d <= -n OBVIOUS
<1> QED BY <1>1, <1>2

LEMMA RestIsUnique ==
  ASSUME NEW n \in Nat \ {0}, NEW x \in Nat, NEW q \in Int, NEW r \in 0 .. n - 1,
         x = n * q + r
  PROVE  x % n = r
<1> DEFINE s == x % n
           d == x \div n
<1>1. s \in 0 .. n - 1 /\ d \in Int /\ x = n * d + s BY Rest
<1> HIDE DEF s, d
<1>2. n * (q - d) = s - r BY <1>1
<1>3. q - d \in Int /\ n * (q - d) \in 1 - n .. n - 1 BY <1>1, <1>2
<1>4. q - d = 0 BY <1>3, Multiple
<1> QED BY <1>1, <1>2, <1>4 DEF s

LEMMA ModSmall ==
  ASSUME NEW n \in Nat \ {0}, NEW x \in Nat, x < n
  PROVE  x % n = x /\ (x + n) % n = x
<1>1. x % n = x OBVIOUS
<1>2. (x + n) % n = x OBVIOUS
<1> QED BY <1>1, <1>2

LEMMA ModNext ==
  ASSUME NEW n \in Nat \ {0}, NEW x \in Nat PROVE ((x % n) + 1) % n = (x + 1) % n
<1> DEFINE s == x % n
           d == x \div n
<1>1. s \in 0 .. n - 1 /\ d \in Int /\ x = n * d + s BY Rest
<1> HIDE DEF s, d
<1>2. CASE s + 1 < n
  <2>1. s + 1 \in 0 .. n - 1 /\ (s + 1) % n = s + 1
    <3>1. s + 1 \in 0 .. n - 1 BY <1>1, <1>2
    <3> QED BY <3>1, ModSmall
  <2>2. x + 1 = n * d + (s + 1) /\ x + 1 \in Nat BY <1>1
  <2>3. (x + 1) % n = s + 1 BY <1>1, <2>1, <2>2, RestIsUnique
  <2> QED BY <2>1, <2>3 DEF s
<1>3. CASE s + 1 = n
  <2>1. /\ s + 1 = n * 1 + 0 /\ s + 1 \in Nat /\ 1 \in Int
        /\ 0 \in 0 .. n - 1
    BY <1>1, <1>3
  <2>2. (s + 1) % n = 0 BY <2>1, RestIsUnique
  <2>3. x + 1 = n * (d + 1) + 0 /\ x + 1 \in Nat /\ d + 1 \in Int BY <1>1, <1>3
  <2>4. (x + 1) % n = 0 BY <2>1, <2>3, RestIsUnique
  <2> QED BY <2>2, <2>4 DEF s
<1> QED BY <1>1, <1>2, <1>3

USE CoreTurnAssumption

(* A table has players, and every player has one seat. *)
IsTable(b) ==
  /\ b.order \in Seq(Players) /\ Len(b.order) \in Nat \ {0}
  /\ DOMAIN b.order = 1 .. Len(b.order)
  /\ \A i, j \in DOMAIN b.order : b.order[i] = b.order[j] => i = j

LEMMA Seats ==
  ASSUME NEW b, IsTable(b), NEW p \in Seated(b)
  PROVE  Seat(b, p) \in 1 .. Len(b.order) /\ b.order[Seat(b, p)] = p
<1>1. \E i \in DOMAIN b.order : b.order[i] = p BY DEF Seated, Items
<1> QED BY <1>1 DEF IsTable, Seat

LEMMA SeatAt ==
  ASSUME NEW b, IsTable(b), NEW i \in 1 .. Len(b.order)
  PROVE  b.order[i] \in Seated(b) /\ Seat(b, b.order[i]) = i
<1>1. b.order[i] \in Seated(b) BY DEF IsTable, Seated, Items
<1>2. /\ Seat(b, b.order[i]) \in DOMAIN b.order
      /\ b.order[Seat(b, b.order[i])] = b.order[i]
  BY <1>1, Seats DEF IsTable
<1> QED BY <1>1, <1>2 DEF IsTable

LEMMA AheadIsSeated ==
  ASSUME NEW b, IsTable(b), NEW p \in Seated(b), NEW k \in Nat
  PROVE  /\ Ahead(b, p, k) \in Seated(b)
         /\ Seat(b, Ahead(b, p, k)) = ((Seat(b, p) + k - 1) % Len(b.order)) + 1
<1> DEFINE n == Len(b.order)
           x == Seat(b, p) + k - 1
<1>1. n \in Nat \ {0} /\ x \in Nat
  <2>1. n \in Nat \ {0} BY DEF IsTable
  <2>2. Seat(b, p) \in 1 .. n BY Seats
  <2> QED BY <2>1, <2>2
<1> HIDE DEF x, n
<1>2. (x % n) + 1 \in 1 .. n BY <1>1
<1> QED BY <1>2, SeatAt DEF Ahead, x, n

LEMMA AheadOfAhead ==
  ASSUME NEW b, IsTable(b), NEW p \in Seated(b), NEW k \in Nat
  PROVE  Ahead(b, Ahead(b, p, k), 1) = Ahead(b, p, k + 1)
<1> DEFINE n == Len(b.order)
           x == Seat(b, p) + k - 1
<1>1. n \in Nat \ {0} /\ x \in Nat
  <2>1. n \in Nat \ {0} BY DEF IsTable
  <2>2. Seat(b, p) \in 1 .. n BY Seats
  <2> QED BY <2>1, <2>2
<1>2. Seat(b, Ahead(b, p, k)) = (x % n) + 1 BY AheadIsSeated
<1>3. x + 1 = Seat(b, p) + (k + 1) - 1
  <2>1. Seat(b, p) \in Int BY Seats
  <2> QED BY <2>1
<1> HIDE DEF x, n
<1>4. x % n \in Nat BY <1>1
<1>5. ((x % n) + 1 + 1 - 1) % n = (x + 1) % n
  <2>1. (x % n) + 1 + 1 - 1 = (x % n) + 1 BY <1>4
  <2> QED BY <1>1, <2>1, ModNext
<1>6. Ahead(b, Ahead(b, p, k), 1) = b.order[(((x % n) + 1 + 1 - 1) % n) + 1]
  BY <1>2 DEF Ahead, n
<1>7. Ahead(b, p, k + 1) = b.order[((x + 1) % n) + 1] BY <1>3 DEF Ahead, n
<1> QED BY <1>5, <1>6, <1>7

(* Counting once around the table meets everybody. *)
LEMMA AroundTheTable ==
  ASSUME NEW b, IsTable(b), NEW p \in Seated(b), NEW q \in Seated(b)
  PROVE  \E k \in 0 .. Len(b.order) - 1 : Ahead(b, p, k) = q
<1> DEFINE n == Len(b.order)
           s == Seat(b, p)
           j == Seat(b, q)
<1>1. n \in Nat \ {0} /\ s \in 1 .. n /\ j \in 1 .. n /\ b.order[j] = q
  BY Seats DEF IsTable
<1>2. \A k \in Nat : Ahead(b, p, k) = b.order[((s + k - 1) % n) + 1] BY DEF Ahead
<1> HIDE DEF n, s, j
<1>3. CASE j >= s
  <2>1. j - s \in 0 .. n - 1 /\ s + (j - s) - 1 = j - 1 /\ j - 1 \in 0 .. n - 1
    BY <1>1, <1>3
  <2>2. j - 1 \in Nat /\ j - 1 < n BY <1>1
  <2>3. (s + (j - s) - 1) % n = j - 1 BY <1>1, <2>1, <2>2, ModSmall
  <2>4. ((s + (j - s) - 1) % n) + 1 = j BY <1>1, <2>3
  <2>5. (j - s) \in Nat BY <2>1
  <2>6. Ahead(b, p, (j - s)) = q BY <1>1, <1>2, <2>4, <2>5
  <2> QED BY <2>1, <2>6 DEF n
<1>4. CASE j < s
  <2>1. /\ j - s + n \in 0 .. n - 1 /\ s + (j - s + n) - 1 = (j - 1) + n
        /\ j - 1 \in 0 .. n - 1
    BY <1>1, <1>4
  <2>2. j - 1 \in Nat /\ j - 1 < n BY <1>1
  <2>3. (s + (j - s + n) - 1) % n = j - 1 BY <1>1, <2>1, <2>2, ModSmall
  <2>4. ((s + (j - s + n) - 1) % n) + 1 = j BY <1>1, <2>3
  <2>5. (j - s + n) \in Nat BY <2>1
  <2>6. Ahead(b, p, (j - s + n)) = q BY <1>1, <1>2, <2>4, <2>5
  <2> QED BY <2>1, <2>6 DEF n
<1> QED BY <1>1, <1>3, <1>4

LEMMA AheadOfNobody ==
  ASSUME NEW b, IsTable(b), NEW p \in Seated(b) PROVE Ahead(b, p, 0) = p
<1> DEFINE n == Len(b.order)
           s == Seat(b, p)
<1>1. n \in Nat \ {0} /\ s \in 1 .. n /\ b.order[s] = p BY Seats DEF IsTable
<1> HIDE DEF n, s
<1>2. s - 1 \in Nat /\ s - 1 < n /\ s + 0 - 1 = s - 1 BY <1>1
<1>3. (s + 0 - 1) % n = s - 1 BY <1>1, <1>2, ModSmall
<1>4. ((s + 0 - 1) % n) + 1 = s BY <1>1, <1>3
<1> QED BY <1>1, <1>4 DEF Ahead, n, s

-----------------------------------------------------------------------------
(* Windows and bundles *)

LEMMA WindowTypes ==
  ASSUME NEW p \in Players
  PROVE  /\ TurnAction(p) \in Windows /\ Discarding(p) \in Windows
         /\ StateActions(p) \in Windows
         /\ \A g \in BOOLEAN : SbaCheck(p, g) \in Windows
         /\ \A os \in Seq(Objects) : TriggerOrder(p, os) \in Windows
         /\ \A q \in Players, ps \in Seq(Players) : Priority(p, q, ps) \in Windows
BY DEF Windows, TurnAction, Discarding, StateActions, SbaCheck, TriggerOrder, Priority

LEMMA ReadyTypes ==
  /\ PositionReady \in Windows /\ RepeatReady \in Windows /\ TurnReady \in Windows
  /\ \A o \in Objects : ResolutionReady(o) \in Windows
BY DEF Windows, PositionReady, RepeatReady, TurnReady, ResolutionReady

(* What each kind of window holds. *)
LEMMA WindowFields ==
  ASSUME NEW w \in Windows
  PROVE  /\ w.kind \in {"turn-based-action-required", "sba-check-required",
                        "cleanup-discard-required", "cleanup-state-actions-required"}
            => w.player \in Players
         /\ w.kind = "sba-check-required" => w.grant \in BOOLEAN
         /\ w.kind = "trigger-order-required" => w.player \in Players
         /\ w.kind = "priority" => /\ w.start \in Players /\ w.player \in Players
                                   /\ w.passed \in Seq(Players)
         /\ w.kind = "resolution-ready" => w.object \in Objects
         /\ w.kind \in PlayerKinds \union BoundaryKinds \union {"resolution-ready"}
BY DEF Windows, PlayerKinds, BoundaryKinds

(* The windows that ask somebody to act, with what validity asks of them. *)
Asking == {"turn-based-action-required", "sba-check-required",
           "cleanup-discard-required", "cleanup-state-actions-required"}
AsksRightly(b) ==
  /\ b.window.kind \in Asking
  /\ b.window.player \in Seated(b)
  /\ b.position = "untap" => b.window.kind = "turn-based-action-required"
  /\ b.window.kind = "turn-based-action-required"
       => b.position \in {"untap", "draw", "precombat-main"}
  /\ b.window.kind \in {"cleanup-discard-required", "cleanup-state-actions-required"}
       => b.position = "cleanup" /\ b.window.player = b.active

LEMMA AskingIsValid ==
  ASSUME NEW b, AsksRightly(b), NoTriggerIsOnTheStack(b)
  PROVE  ValidBundle(b)
BY DEF AsksRightly, Asking, ValidBundle, WindowFitsPosition, WindowPlayersAreSeated,
       PassesAreContiguous, TriggersAreSettled, StackIsSettled, ResolvesTheTop,
       CleanupKinds, SettledKinds, BoundaryKinds, PlayerKinds

-----------------------------------------------------------------------------
(* The stack and the passes *)

(* An object that leaves the top of the stack. *)
LEMMA BelowTheTop ==
  ASSUME NEW T, NEW s \in Seq(T), s # <<>>
  PROVE  /\ SubSeq(s, 1, Len(s) - 1) \in Seq(T)
         /\ Items(SubSeq(s, 1, Len(s) - 1)) \subseteq Items(s)
<1>1. Len(s) \in Nat /\ Len(s) >= 1 /\ DOMAIN s = 1 .. Len(s) OBVIOUS
<1>2. SubSeq(s, 1, Len(s) - 1) \in Seq(T) BY <1>1
<1>3. DOMAIN SubSeq(s, 1, Len(s) - 1) = 1 .. Len(s) - 1 BY <1>1
<1>4. \A i \in 1 .. Len(s) - 1 : SubSeq(s, 1, Len(s) - 1)[i] = s[i] BY <1>1
<1>5. Items(SubSeq(s, 1, Len(s) - 1)) \subseteq Items(s)
  BY <1>1, <1>3, <1>4 DEF Items
<1> QED BY <1>2, <1>5

LEMMA OneMoreItem ==
  ASSUME NEW S, NEW s \in Seq(S), NEW o \in S
  PROVE  Append(s, o) \in Seq(S) /\ Items(Append(s, o)) = Items(s) \union {o}
<1>1. Append(s, o) \in Seq(S) /\ DOMAIN s = 1 .. Len(s) /\ Len(s) \in Nat OBVIOUS
<1>2. DOMAIN Append(s, o) = 1 .. Len(s) + 1 OBVIOUS
<1>3. \A i \in 1 .. Len(s) : Append(s, o)[i] = s[i] OBVIOUS
<1>4. Append(s, o)[Len(s) + 1] = o OBVIOUS
<1>5. Items(Append(s, o)) = Items(s) \union {o}
  BY <1>1, <1>2, <1>3, <1>4 DEF Items
<1> QED BY <1>1, <1>5

(* One more pass in a cycle. *)
LEMMA PassAgain ==
  ASSUME NEW b, IsTable(b), ValidBundle(b), b.window \in Windows,
         b.window.kind = "priority"
  PROVE  LET w  == b.window
             ps == Append(w.passed, w.player)
         IN  /\ w.start \in Seated(b) /\ w.player \in Seated(b)
             /\ ps \in Seq(Players) /\ Len(ps) \in 1 .. Len(b.order)
             /\ DOMAIN ps = 1 .. Len(ps)
             /\ \A i \in 1 .. Len(ps) : ps[i] = Ahead(b, w.start, i - 1)
             /\ Ahead(b, w.player, 1) = Ahead(b, w.start, Len(ps))
             /\ Items(ps) = Items(w.passed) \union {w.player}
<1> DEFINE w  == b.window
           ps == Append(w.passed, w.player)
           n  == Len(b.order)
<1>1. ValidBundle(b) /\ w \in Windows OBVIOUS
<1>2. n \in Nat \ {0} BY DEF IsTable
<1>3. w.start \in Seated(b) /\ w.player \in Seated(b)
  BY <1>1 DEF ValidBundle, WindowPlayersAreSeated, PlayerKinds
<1>4. w.passed \in Seq(Players) /\ w.player \in Players BY <1>1, WindowFields
<1>5. /\ Len(w.passed) < n
      /\ \A i \in DOMAIN w.passed : w.passed[i] = Ahead(b, w.start, i - 1)
      /\ w.player = Ahead(b, w.start, Len(w.passed))
  BY <1>1 DEF ValidBundle, PassesAreContiguous
<1>7. Ahead(b, w.player, 1) = Ahead(b, w.start, Len(w.passed) + 1)
  <2> HIDE DEF w, n
  <2>1. Len(w.passed) \in Nat BY <1>4
  <2>2. \A k \in Nat :
          Ahead(b, Ahead(b, w.start, k), 1) = Ahead(b, w.start, k + 1)
    BY <1>1, <1>3, AheadOfAhead
  <2> QED BY <1>5, <2>1, <2>2
<1> HIDE DEF w, n
<1>8. /\ ps \in Seq(Players) /\ Len(ps) = Len(w.passed) + 1
      /\ Len(w.passed) \in Nat /\ DOMAIN w.passed = 1 .. Len(w.passed)
      /\ DOMAIN ps = 1 .. Len(ps)
      /\ \A i \in 1 .. Len(w.passed) : ps[i] = w.passed[i]
      /\ ps[Len(ps)] = w.player
  BY <1>4
<1>9. Items(ps) = Items(w.passed) \union {w.player} BY <1>4, OneMoreItem
<1> HIDE DEF ps
<1>10. Len(ps) \in 1 .. n BY <1>2, <1>5, <1>8
<1>11. ASSUME NEW i \in 1 .. Len(ps) PROVE ps[i] = Ahead(b, w.start, i - 1)
  <2>1. CASE i \in 1 .. Len(w.passed) BY <1>5, <1>8, <2>1
  <2>2. CASE i = Len(ps)
    <3>1. i - 1 = Len(w.passed) BY <1>8, <2>2
    <3> QED BY <1>5, <1>8, <2>2, <3>1
  <2>3. i \in 1 .. Len(w.passed) \/ i = Len(ps)
    <3>1. Len(ps) = Len(w.passed) + 1 /\ Len(w.passed) \in Nat BY <1>8
    <3> QED BY <3>1
  <2> QED BY <2>1, <2>2, <2>3
<1> QED
  BY <1>3, <1>7, <1>8, <1>9, <1>10, <1>11 DEF w, ps, n

(* A cycle that is over went around the table. *)
LEMMA EverybodyPassed ==
  ASSUME NEW b, IsTable(b), NEW p \in Seated(b), NEW ps \in Seq(Players),
         Len(ps) = Len(b.order), DOMAIN ps = 1 .. Len(ps),
         \A i \in 1 .. Len(ps) : ps[i] = Ahead(b, p, i - 1)
  PROVE  Items(ps) = Seated(b)
<1>1. Len(b.order) \in Nat \ {0} BY DEF IsTable
<1>2. ASSUME NEW q \in Items(ps) PROVE q \in Seated(b)
  <2>1. PICK i \in 1 .. Len(ps) : q = ps[i] BY DEF Items
  <2>2. i - 1 \in Nat BY <2>1
  <2> QED BY <2>1, <2>2, AheadIsSeated
<1>3. ASSUME NEW q \in Seated(b) PROVE q \in Items(ps)
  <2>1. PICK k \in 0 .. Len(b.order) - 1 : Ahead(b, p, k) = q BY AroundTheTable
  <2>2. k + 1 \in 1 .. Len(ps) /\ (k + 1) - 1 = k BY <1>1, <2>1
  <2>3. ps[k + 1] = q BY <2>1, <2>2
  <2> QED BY <2>2, <2>3 DEF Items
<1> QED BY <1>2, <1>3

-----------------------------------------------------------------------------
(* The items of a sequence that are in a set *)

LessThan == {ss \in Nat \X Nat : ss[1] < ss[2]}
LEMMA LessIsWellFounded == IsWellFoundedOn(LessThan, Nat)
<1>1. LessThan = OpToRel(<, Nat) BY DEF LessThan, OpToRel
<1> QED BY <1>1, NatLessThanWellFounded

(* Some numbers, if any, have a least one: an induction is the search for the
   least counterexample. *)
LEMMA Least ==
  ASSUME NEW S \in SUBSET Nat, S # {} PROVE \E a \in S : \A b \in S : a <= b
<1>1. PICK x \in S : \A y \in S : ~(<<y, x>> \in LessThan)
  BY LessIsWellFounded, WFMin
<1>2. ASSUME NEW y \in S PROVE x <= y
  <2>1. x \in Nat /\ y \in Nat OBVIOUS
  <2>2. ~(<<y, x>> \in LessThan) BY <1>1
  <2>3. ~(y < x) BY <2>1, <2>2 DEF LessThan
  <2> QED BY <2>1, <2>3
<1> QED BY <1>2

LEMMA LeastOf ==
  ASSUME NEW n \in Nat, NEW S \in SUBSET (0 .. n), 0 \notin S, S # {}
  PROVE  \E a \in S : a \in 1 .. n /\ a - 1 \in 0 .. n /\ a - 1 \notin S
<1>1. S \in SUBSET Nat OBVIOUS
<1>2. PICK a \in S : \A b \in S : a <= b BY <1>1, Least
<1>3. a \in 1 .. n OBVIOUS
<1>4. a - 1 \notin S BY <1>2, <1>3
<1> QED BY <1>3, <1>4

(* What Only has kept of the first m items. *)
Kept(s, S, m, f) ==
  f = [i \in 0 .. m |->
         IF i = 0 THEN <<>>
         ELSE IF s[i] \in S THEN Append(f[i - 1], s[i]) ELSE f[i - 1]]

LEMMA KeptExists ==
  ASSUME NEW s, NEW S, NEW n \in Nat PROVE \E f : Kept(s, S, n, f)
<1> DEFINE Bad == {m \in 0 .. n : ~ \E f : Kept(s, S, m, f)}
<1>1. 0 \notin Bad
  <2> DEFINE f == [i \in 0 .. 0 |-> <<>>]
  <2>1. Kept(s, S, 0, f) BY DEF Kept
  <2> QED BY <2>1
<1>2. ASSUME NEW m \in 1 .. n, m - 1 \in 0 .. n, m - 1 \notin Bad PROVE m \notin Bad
  <2>1. PICK f : Kept(s, S, m - 1, f) BY <1>2
  <2> DEFINE g == [i \in 0 .. m |->
                     IF i < m THEN f[i]
                     ELSE IF s[m] \in S THEN Append(f[m - 1], s[m]) ELSE f[m - 1]]
  <2>2. \A i \in 0 .. m - 1 : g[i] = f[i] OBVIOUS
  <2>3. \A i \in 0 .. m - 1 : f[i] =
          IF i = 0 THEN <<>>
          ELSE IF s[i] \in S THEN Append(f[i - 1], s[i]) ELSE f[i - 1]
    BY <2>1 DEF Kept
  <2>4. \A i \in 1 .. m : i - 1 \in 0 .. m - 1 OBVIOUS
  <2>5. ASSUME NEW i \in 0 .. m
        PROVE  g[i] = IF i = 0 THEN <<>>
                      ELSE IF s[i] \in S THEN Append(g[i - 1], s[i]) ELSE g[i - 1]
    <3>1. CASE i = 0
      <4>1. 0 \in 0 .. m - 1 OBVIOUS
      <4> QED BY <2>2, <2>3, <3>1, <4>1
    <3>2. CASE i \in 1 .. m - 1
      <4>1. i \in 0 .. m - 1 /\ i - 1 \in 0 .. m - 1 /\ i # 0 BY <3>2
      <4>2. g[i] = f[i] /\ g[i - 1] = f[i - 1] BY <2>2, <4>1
      <4> HIDE DEF g
      <4> QED BY <2>3, <4>1, <4>2
    <3>3. CASE i = m
      <4>1. m # 0 /\ ~(m < m) /\ m - 1 \in 0 .. m - 1 /\ m \in 0 .. m OBVIOUS
      <4>2. g[m - 1] = f[m - 1] BY <2>2, <4>1
      <4>3. g[m] = IF s[m] \in S THEN Append(f[m - 1], s[m]) ELSE f[m - 1]
        BY <4>1
      <4> HIDE DEF g
      <4> QED BY <3>3, <4>1, <4>2, <4>3
    <3> QED BY <3>1, <3>2, <3>3
  <2>6. Kept(s, S, m, g)
    <3> DEFINE h == [i \in 0 .. m |->
                       IF i = 0 THEN <<>>
                       ELSE IF s[i] \in S THEN Append(g[i - 1], s[i]) ELSE g[i - 1]]
    <3>1. g = [i \in 0 .. m |-> g[i]] OBVIOUS
    <3> HIDE DEF g
    <3>2. g = h BY <2>5, <3>1
    <3> QED BY <3>2 DEF Kept
  <2> QED BY <2>6
<1>3. Bad = {}
  <2> SUFFICES ASSUME Bad # {} PROVE FALSE OBVIOUS
  <2>1. Bad \in SUBSET (0 .. n) OBVIOUS
  <2> HIDE DEF Bad
  <2>2. PICK m \in Bad : m \in 1 .. n /\ m - 1 \in 0 .. n /\ m - 1 \notin Bad
    BY <1>1, <2>1, LeastOf
  <2> QED BY <1>2, <2>2
<1> QED BY <1>3

Injective(s) == \A i, j \in DOMAIN s : s[i] = s[j] => i = j

LEMMA AppendKeepsOrder ==
  ASSUME NEW T, NEW s \in Seq(T), NEW e \in T, Injective(s), e \notin Items(s)
  PROVE  Injective(Append(s, e))
<1>1. /\ Len(s) \in Nat /\ DOMAIN s = 1 .. Len(s)
      /\ DOMAIN Append(s, e) = 1 .. Len(s) + 1
      /\ \A i \in 1 .. Len(s) : Append(s, e)[i] = s[i] /\ s[i] # e
      /\ Append(s, e)[Len(s) + 1] = e
  BY DEF Items
<1> QED BY <1>1 DEF Injective

(* Only keeps the items in the set, all of them, and repeats none. *)
LEMMA OnlyItems ==
  ASSUME NEW T, NEW s \in Seq(T), NEW S
  PROVE  /\ Only(s, S) \in Seq(T)
         /\ Items(Only(s, S)) = Items(s) \cap S
         /\ Injective(s) => Injective(Only(s, S))
<1> DEFINE n    == Len(s)
           only == CHOOSE f : Kept(s, S, n, f)
           Good(i) == /\ only[i] \in Seq(T)
                      /\ Items(only[i]) = {s[j] : j \in 1 .. i} \cap S
                      /\ Injective(s) => Injective(only[i])
           Bad  == {i \in 0 .. n : ~Good(i)}
<1>1. n \in Nat /\ DOMAIN s = 1 .. n OBVIOUS
<1>2. Kept(s, S, n, only) BY <1>1, KeptExists
<1>3. Only(s, S) = only[n] BY DEF Only, Kept
<1> HIDE DEF n, only
<1>4. /\ only[0] = <<>>
      /\ \A i \in 1 .. n : only[i] = IF s[i] \in S THEN Append(only[i - 1], s[i])
                                     ELSE only[i - 1]
  <2>1. \A i \in 0 .. n :
          only[i] = IF i = 0 THEN <<>>
                    ELSE IF s[i] \in S THEN Append(only[i - 1], s[i]) ELSE only[i - 1]
    BY <1>2 DEF Kept
  <2>2. 0 \in 0 .. n /\ \A i \in 1 .. n : i \in 0 .. n /\ i # 0 BY <1>1
  <2> QED BY <2>1, <2>2
<1>5. 0 \notin Bad
  <2>1. Items(only[0]) = {} /\ {s[j] : j \in 1 .. 0} = {} BY <1>4 DEF Items
  <2>2. only[0] \in Seq(T) /\ Injective(only[0]) BY <1>4 DEF Injective
  <2> QED BY <2>1, <2>2
<1>6. ASSUME NEW i \in 1 .. n, i - 1 \in 0 .. n, i - 1 \notin Bad PROVE i \notin Bad
  <2>1. Good(i - 1) BY <1>6
  <2>2. s[i] \in T BY <1>1
  <2>3. {s[j] : j \in 1 .. i} = {s[j] : j \in 1 .. i - 1} \union {s[i]}
    <3>1. 1 .. i = (1 .. i - 1) \union {i} OBVIOUS
    <3> QED BY <3>1
  <2> HIDE DEF Bad
  <2>4. CASE s[i] \in S
    <3>1. only[i] = Append(only[i - 1], s[i]) BY <1>4, <2>4
    <3>2. only[i] \in Seq(T) BY <2>1, <2>2, <3>1
    <3>3. Items(only[i]) = Items(only[i - 1]) \union {s[i]}
      BY <2>1, <2>2, <3>1, OneMoreItem
    <3>4. Items(only[i]) = {s[j] : j \in 1 .. i} \cap S BY <2>1, <2>3, <2>4, <3>3
    <3>5. ASSUME Injective(s) PROVE Injective(only[i])
      <4>1. s[i] \notin {s[j] : j \in 1 .. i - 1}
        BY SMTT(30), <1>1, <3>5 DEF Injective
      <4>2. s[i] \notin Items(only[i - 1]) BY <2>1, <4>1
      <4>3. Injective(only[i - 1]) /\ only[i - 1] \in Seq(T) BY <2>1, <3>5
      <4> HIDE DEF Good
      <4> QED BY <2>2, <3>1, <4>2, <4>3, AppendKeepsOrder
    <3>6. Good(i) BY <3>2, <3>4, <3>5
    <3> QED BY <3>6 DEF Bad
  <2>5. CASE s[i] \notin S
    <3>1. only[i] = only[i - 1] BY <1>4, <2>5
    <3>2. Good(i) BY <2>1, <2>3, <2>5, <3>1
    <3> QED BY <3>2 DEF Bad
  <2> QED BY <2>4, <2>5
<1>7. Bad = {}
  <2> SUFFICES ASSUME Bad # {} PROVE FALSE OBVIOUS
  <2>1. Bad \in SUBSET (0 .. n) OBVIOUS
  <2> HIDE DEF Bad
  <2>2. PICK m \in Bad : m \in 1 .. n /\ m - 1 \in 0 .. n /\ m - 1 \notin Bad
    BY <1>1, <1>5, <2>1, LeastOf
  <2> QED BY <1>6, <2>2
<1>8. n \in 0 .. n BY <1>1
<1>9. Good(n) BY <1>7, <1>8
<1>10. Items(s) = {s[j] : j \in 1 .. n} BY <1>1 DEF Items
<1> QED BY <1>3, <1>9, <1>10

LEMMA WithoutItems ==
  ASSUME NEW T, NEW s \in Seq(T), NEW o
  PROVE  /\ Without(s, o) \in Seq(T)
         /\ Items(Without(s, o)) = Items(s) \ {o}
         /\ Injective(s) => Injective(Without(s, o))
BY OnlyItems DEF Without

-----------------------------------------------------------------------------
(* TurnEngine *)

USE TurnEngineAssumption

(* Every player has one seat. *)
LEMMA Tables ==
  ASSUME NEW b \in Bundles
  PROVE  IsTable(b) /\ \A o \in Objects : ControllerOf[o] \in Seated(b)
<1>1. b.order \in TurnOrders BY DEF Bundles
<1>2. b.order \in Seq(Players) /\ Len(b.order) > 0 BY <1>1
<1>3. Len(b.order) \in Nat /\ DOMAIN b.order = 1 .. Len(b.order) BY <1>2
<1> QED BY <1>1, <1>2, <1>3 DEF Seated, IsTable

LEMMA BundleFields ==
  ASSUME NEW b \in Bundles
  PROVE  /\ b.order \in TurnOrders /\ b.active \in Players /\ b.turn \in Nat \ {0}
         /\ b.position \in Positions /\ b.window \in Windows /\ b.stack \in Seq(Objects)
         /\ b.pending \in Seq(Objects) /\ b.hand \in [Players -> Nat]
         /\ b.mana \subseteq Players /\ b.damaged \in BOOLEAN
         /\ Seated(b) \subseteq Players
<1>1. Seated(b) \subseteq Players BY Tables DEF Seated, Items, IsTable
<1> QED BY <1>1 DEF Bundles

-----------------------------------------------------------------------------
(* The strengthening *)

(* A turn that may end: nothing of it is left. *)
Clean(b) ==
  ~b.damaged /\ b.mana = {} /\ b.hand[b.active] <= MaximumHand[b.active]

(* Before the last check of cleanup everything is removed, and nothing changed
   since; only that check grants no priority. *)
EndsClean(b) ==
  /\ b.window.kind = "cleanup-state-actions-required"
       => b.hand[b.active] <= MaximumHand[b.active]
  /\ b.window.kind = "sba-check-required" /\ ~b.window.grant
       => b.position = "cleanup" /\ Empty(b.stack) /\ Clean(b)
  /\ b.window.kind = "turn-advance-ready" => Clean(b)

(* Those who answered are those who passed in the cycle; all of them when it is
   over. *)
AnswersArePasses ==
  bundle.window.kind = "priority" => answered = Items(bundle.window.passed)

Inv ==
  /\ TypeOK /\ ValidBundle(bundle) /\ bundle.active \in Seated(bundle)
  /\ AnswersArePasses /\ EveryoneAnswered /\ EndsClean(bundle)

(* A step to a window that asks somebody. *)
LEMMA AskedNext ==
  ASSUME NEW b \in Bundles, bundle' = b, answered' = {}, events' \in 0 .. MaxEvents,
         AsksRightly(b), NoTriggerIsOnTheStack(b), b.active \in Seated(b), EndsClean(b)
  PROVE  Inv'
<1>1. ValidBundle(b) BY AskingIsValid
<1>2. TypeOK' BY DEF TypeOK
<1>3. AnswersArePasses' /\ EveryoneAnswered'
  BY DEF AnswersArePasses, EveryoneAnswered, AsksRightly, Asking
<1> QED BY <1>1, <1>2, <1>3 DEF Inv

(* What a bundle of the invariant offers, read once. *)
LEMMA Reading ==
  ASSUME Inv
  PROVE  /\ bundle \in Bundles /\ answered \subseteq Players /\ events \in 0 .. MaxEvents
         /\ bundle.active \in Seated(bundle) /\ Seated(bundle) \subseteq Players
         /\ NoTriggerIsOnTheStack(bundle)
BY BundleFields DEF Inv, TypeOK, ValidBundle

LEMMA NewWindow ==
  ASSUME NEW b \in Bundles, NEW w \in Windows
  PROVE  /\ [b EXCEPT !.window = w] \in Bundles
         /\ [b EXCEPT !.window = w].window = w
         /\ [b EXCEPT !.window = w].order = b.order
         /\ [b EXCEPT !.window = w].active = b.active
         /\ [b EXCEPT !.window = w].position = b.position
         /\ [b EXCEPT !.window = w].stack = b.stack
         /\ [b EXCEPT !.window = w].pending = b.pending
         /\ [b EXCEPT !.window = w].hand = b.hand
         /\ [b EXCEPT !.window = w].mana = b.mana
         /\ [b EXCEPT !.window = w].damaged = b.damaged
BY DEF Bundles
-----------------------------------------------------------------------------
(* Init and each step *)

LEMMA InitInv == Init => Inv
<1> SUFFICES ASSUME Init PROVE Inv OBVIOUS
<1>1. PICK t \in TurnOrders :
        bundle = [order |-> t, active |-> t[1], turn |-> 1,
                  position |-> "untap", window |-> TurnAction(t[1]),
                  stack |-> <<>>, pending |-> <<>>, hand |-> MaximumHand,
                  mana |-> {}, damaged |-> FALSE]
  BY DEF Init
<1>2. t \in Seq(Players) /\ 1 \in DOMAIN t /\ t[1] \in Players
  <2>1. t \in Seq(Players) /\ Len(t) > 0 OBVIOUS
  <2> QED BY <2>1
<1>3. bundle \in Bundles
  <2>1. TurnAction(t[1]) \in Windows BY <1>2, WindowTypes
  <2>2. "untap" \in Positions BY DEF Positions
  <2>3. <<>> \in Seq(Objects) OBVIOUS
  <2> QED BY <1>1, <1>2, <2>1, <2>2, <2>3 DEF Bundles
<1>4. TypeOK BY <1>3 DEF TypeOK, Init
<1>5. t[1] \in Seated(bundle) BY <1>1, <1>2 DEF Seated, Items
<1>6. NoTriggerIsOnTheStack(bundle) BY <1>1 DEF NoTriggerIsOnTheStack, Items
<1>7. AsksRightly(bundle) BY <1>1, <1>5 DEF AsksRightly, Asking, TurnAction
<1>8. ValidBundle(bundle) BY <1>6, <1>7, AskingIsValid
<1>9. AnswersArePasses /\ EveryoneAnswered /\ EndsClean(bundle)
  BY <1>1 DEF AnswersArePasses, EveryoneAnswered, EndsClean, TurnAction
<1> QED BY <1>1, <1>4, <1>5, <1>8, <1>9 DEF Inv

(* A bundle whose stack and pending abilities are as they were. *)
LEMMA SameObjects ==
  ASSUME NEW b, b.stack = bundle.stack, b.pending = bundle.pending,
         NoTriggerIsOnTheStack(bundle)
  PROVE  NoTriggerIsOnTheStack(b)
BY DEF NoTriggerIsOnTheStack

LEMMA CheckpointStep == ASSUME Inv, Checkpoint PROVE Inv'
<1> DEFINE b == Checkpointed(bundle)
<1>1. /\ bundle \in Bundles /\ bundle.active \in Seated(bundle)
      /\ Seated(bundle) \subseteq Players /\ events \in 0 .. MaxEvents
      /\ NoTriggerIsOnTheStack(bundle)
  BY Reading
<1>2. SbaCheck(bundle.active, TRUE) \in Windows BY <1>1, WindowTypes
<1>3. /\ b \in Bundles /\ b.window = SbaCheck(bundle.active, TRUE)
      /\ b.position # "untap" /\ b.order = bundle.order /\ b.active = bundle.active
      /\ b.stack = bundle.stack /\ b.pending = bundle.pending
  BY <1>1, <1>2 DEF Bundles, Checkpointed, Positions
<1>4. bundle' = b /\ answered' = {} /\ events' = events BY DEF Checkpoint, Becomes
<1> HIDE DEF b
<1>5. AsksRightly(b) /\ b.active \in Seated(b) /\ EndsClean(b)
  BY <1>1, <1>3 DEF AsksRightly, Asking, EndsClean, SbaCheck, Seated
<1>6. NoTriggerIsOnTheStack(b) BY <1>1, <1>3, SameObjects
<1> QED BY <1>1, <1>3, <1>4, <1>5, <1>6, AskedNext

(* The window a step begins with. *)
LEMMA WindowOfCleanup ==
  ASSUME NEW b \in Bundles, b.active \in Seated(b)
  PROVE  /\ CleanupWindow(b) \in Windows /\ CleanupWindow(b).player = b.active
         /\ CleanupWindow(b).kind \in {"cleanup-discard-required",
                                       "cleanup-state-actions-required"}
         /\ CleanupWindow(b).kind = "cleanup-state-actions-required"
              => b.hand[b.active] <= MaximumHand[b.active]
<1>1. b.active \in Players /\ b.hand[b.active] \in Nat /\ MaximumHand[b.active] \in Nat
  BY BundleFields
<1>2. Discarding(b.active) \in Windows /\ StateActions(b.active) \in Windows
  BY <1>1, WindowTypes
<1>3. CASE b.hand[b.active] > MaximumHand[b.active]
  BY <1>2, <1>3 DEF CleanupWindow, Discarding
<1>4. CASE ~(b.hand[b.active] > MaximumHand[b.active])
  BY <1>1, <1>2, <1>4 DEF CleanupWindow, StateActions
<1> QED BY <1>3, <1>4

LEMMA WindowOfPosition ==
  ASSUME NEW b \in Bundles, b.active \in Seated(b), NEW to \in Positions \ {"untap"}
  PROVE  LET w == WindowForPosition(b, to) IN
         /\ w \in Windows /\ w.kind \in Asking /\ w.player = b.active
         /\ w.kind = "turn-based-action-required" => to \in {"draw", "precombat-main"}
         /\ w.kind \in {"cleanup-discard-required", "cleanup-state-actions-required"}
              => to = "cleanup"
         /\ w.kind = "cleanup-state-actions-required"
              => b.hand[b.active] <= MaximumHand[b.active]
         /\ w.kind = "sba-check-required" => w.grant
<1> DEFINE w == WindowForPosition(b, to)
<1>1. b.active \in Players BY BundleFields
<1>2. TurnAction(b.active) \in Windows /\ SbaCheck(b.active, TRUE) \in Windows
  BY <1>1, WindowTypes
<1>3. CASE to = "cleanup"
  <2>1. w = CleanupWindow(b) BY <1>3 DEF WindowForPosition
  <2> QED BY <1>3, <2>1, WindowOfCleanup DEF Asking
<1>4. CASE to \in {"draw", "precombat-main"}
  BY <1>2, <1>4 DEF WindowForPosition, TurnAction, Asking
<1>5. CASE to \notin {"cleanup", "draw", "precombat-main"}
  BY <1>2, <1>5 DEF WindowForPosition, SbaCheck, Asking
<1> QED BY <1>3, <1>4, <1>5

(* The game moves to the start of a step. *)
LEMMA ToPosition ==
  ASSUME Inv, NEW to \in Positions \ {"untap"}, NEW b \in Bundles,
         b.position = to, b.window = WindowForPosition(bundle, to),
         b.order = bundle.order, b.active = bundle.active, b.stack = bundle.stack,
         b.pending = bundle.pending, b.hand = bundle.hand,
         bundle' = b, answered' = {}, events' \in 0 .. MaxEvents
  PROVE  Inv'
<1>1. /\ bundle \in Bundles /\ bundle.active \in Seated(bundle)
      /\ NoTriggerIsOnTheStack(bundle)
  BY Reading
<1>2. AsksRightly(b) /\ b.active \in Seated(b) /\ EndsClean(b)
  <2>1. b.active \in Seated(b) BY <1>1 DEF Seated
  <2>2. /\ b.window.kind \in Asking /\ b.window.player = b.active
        /\ b.window.kind = "turn-based-action-required"
             => to \in {"draw", "precombat-main"}
        /\ b.window.kind \in {"cleanup-discard-required",
                              "cleanup-state-actions-required"} => to = "cleanup"
        /\ b.window.kind = "cleanup-state-actions-required"
             => b.hand[b.active] <= MaximumHand[b.active]
        /\ b.window.kind = "sba-check-required" => b.window.grant
    BY <1>1, WindowOfPosition
  <2>3. AsksRightly(b) BY <2>1, <2>2 DEF AsksRightly
  <2>4. EndsClean(b) BY <2>2 DEF EndsClean, Asking
  <2> QED BY <2>1, <2>3, <2>4
<1>3. NoTriggerIsOnTheStack(b) BY <1>1, SameObjects
<1> QED BY <1>2, <1>3, AskedNext

LEMMA NeverBackToUntap ==
  ASSUME NEW b \in Bundles, NEW to, MayAdvance(b, to) PROVE to \in Positions \ {"untap"}
BY DEF MayAdvance, AllowedTransitions, Positions

LEMMA AdvanceStep ==
  ASSUME Inv, NEW to, MayAdvance(bundle, to), bundle' = Advanced(bundle, to),
         answered' = {}, events' \in 0 .. MaxEvents
  PROVE  Inv'
<1> DEFINE b == Advanced(bundle, to)
           w == WindowForPosition(bundle, to)
<1>1. /\ bundle \in Bundles /\ bundle.active \in Seated(bundle) BY Reading
<1>2. to \in Positions \ {"untap"} BY <1>1, NeverBackToUntap
<1>3. w \in Windows BY <1>1, <1>2, WindowOfPosition
<1> HIDE DEF w
<1>4. /\ b \in Bundles /\ b.window = w /\ b.position = to /\ b.order = bundle.order
      /\ b.active = bundle.active /\ b.stack = bundle.stack
      /\ b.pending = bundle.pending /\ b.hand = bundle.hand
  <2>1. b = [bundle EXCEPT !.position = to, !.mana = {}, !.window = w]
    BY DEF Advanced, w
  <2> QED BY ZenonT(40), <1>1, <1>2, <1>3, <2>1 DEF Bundles
<1> HIDE DEF b
<1>5. bundle' = b BY DEF b
<1>6. b.window = WindowForPosition(bundle, to) BY <1>4 DEF w
<1> QED BY <1>2, <1>4, <1>5, <1>6, ToPosition

LEMMA SkipDrawStep == ASSUME Inv, SkipFirstDraw PROVE Inv'
<1> DEFINE to == "precombat-main"
           b == DrawSkipped(bundle)
           w == WindowForPosition(bundle, to)
<1>1. /\ bundle \in Bundles /\ bundle.active \in Seated(bundle)
      /\ events \in 0 .. MaxEvents
  BY Reading
<1>2. to \in Positions \ {"untap"} BY DEF Positions
<1>3. w \in Windows BY <1>1, <1>2, WindowOfPosition
<1> HIDE DEF w
<1>4. /\ b \in Bundles /\ b.window = w /\ b.position = to /\ b.order = bundle.order
      /\ b.active = bundle.active /\ b.stack = bundle.stack
      /\ b.pending = bundle.pending /\ b.hand = bundle.hand
  <2>1. b = [bundle EXCEPT !.position = to, !.window = w] BY DEF DrawSkipped, w
  <2> QED BY ZenonT(40), <1>1, <1>2, <1>3, <2>1 DEF Bundles
<1>5. bundle' = b /\ answered' = {} /\ events' = events BY DEF SkipFirstDraw, Becomes
<1> HIDE DEF b
<1>6. b.window = WindowForPosition(bundle, to) BY <1>4 DEF w
<1> QED BY <1>1, <1>2, <1>4, <1>5, <1>6, ToPosition
-----------------------------------------------------------------------------
(* Cleanup and turns *)

(* What of the bundle is left as it was when only the window changes. *)
LEMMA AskInstead ==
  ASSUME Inv, NEW b \in Bundles, AsksRightly(b), EndsClean(b),
         b.order = bundle.order, b.active = bundle.active,
         b.stack = bundle.stack, b.pending = bundle.pending,
         bundle' = b, answered' = {}, events' \in 0 .. MaxEvents
  PROVE  Inv'
<1>1. bundle.active \in Seated(bundle) /\ NoTriggerIsOnTheStack(bundle) BY Reading
<1>2. b.active \in Seated(b) BY <1>1 DEF Seated
<1>3. NoTriggerIsOnTheStack(b) BY <1>1, SameObjects
<1> QED BY <1>2, <1>3, AskedNext

LEMMA DiscardStep == ASSUME Inv, Discard PROVE Inv'
<1> DEFINE b == [bundle EXCEPT !.hand[bundle.active] = @ - 1]
<1>1. /\ bundle \in Bundles /\ bundle.active \in Seated(bundle)
      /\ events \in 0 .. MaxEvents /\ ValidBundle(bundle)
  BY Reading DEF Inv
<1>2. /\ bundle.active \in Players /\ bundle.hand \in [Players -> Nat]
      /\ MaximumHand[bundle.active] \in Nat
  BY <1>1, BundleFields
<1>3. /\ bundle.window.kind = "cleanup-discard-required"
      /\ bundle.hand[bundle.active] > MaximumHand[bundle.active]
      /\ bundle' = b /\ answered' = {} /\ events' = events
  BY DEF Discard, Becomes
<1>4. [bundle.hand EXCEPT ![bundle.active] = @ - 1] \in [Players -> Nat]
  BY <1>2, <1>3
<1>5. /\ b \in Bundles /\ b.window = bundle.window /\ b.order = bundle.order
      /\ b.active = bundle.active /\ b.stack = bundle.stack
      /\ b.pending = bundle.pending /\ b.position = bundle.position
  BY <1>1, <1>4 DEF Bundles
<1> HIDE DEF b
<1>6. AsksRightly(b) /\ EndsClean(b)
  BY <1>1, <1>3, <1>5 DEF AsksRightly, Asking, EndsClean, ValidBundle, Seated,
     WindowFitsPosition, WindowPlayersAreSeated, CleanupKinds, PlayerKinds
<1> QED BY <1>1, <1>3, <1>5, <1>6, AskInstead

LEMMA FinishDiscardStep == ASSUME Inv, FinishDiscard PROVE Inv'
<1> DEFINE w == StateActions(bundle.active)
           b == [bundle EXCEPT !.window = w]
<1>1. /\ bundle \in Bundles /\ bundle.active \in Seated(bundle)
      /\ bundle.active \in Players /\ events \in 0 .. MaxEvents
  BY Reading
<1>2. /\ bundle.position = "cleanup"
      /\ bundle.hand[bundle.active] <= MaximumHand[bundle.active]
      /\ bundle' = b /\ answered' = {} /\ events' = events
  BY DEF FinishDiscard, MayFinishDiscard, Becomes, DiscardFinished
<1>3. w \in Windows BY <1>1, WindowTypes
<1>4. /\ w.kind = "cleanup-state-actions-required" /\ w.player = bundle.active
  BY DEF StateActions
<1> HIDE DEF w
<1>5. /\ b \in Bundles /\ b.window = w /\ b.order = bundle.order
      /\ b.active = bundle.active /\ b.stack = bundle.stack
      /\ b.pending = bundle.pending /\ b.position = bundle.position
      /\ b.hand = bundle.hand
  BY <1>1, <1>3, NewWindow
<1> HIDE DEF b
<1>6. AsksRightly(b) /\ EndsClean(b)
  BY <1>1, <1>2, <1>4, <1>5 DEF AsksRightly, Asking, EndsClean, Seated
<1> QED BY <1>1, <1>2, <1>5, <1>6, AskInstead

LEMMA StateActionsStep == ASSUME Inv, ApplyStateActions PROVE Inv'
<1> DEFINE w == SbaCheck(bundle.active, FALSE)
           b == [bundle EXCEPT !.damaged = FALSE, !.mana = {}, !.window = w]
<1>1. /\ bundle \in Bundles /\ bundle.active \in Seated(bundle)
      /\ bundle.active \in Players /\ events \in 0 .. MaxEvents
  BY Reading
<1>2. /\ bundle.position = "cleanup" /\ Empty(bundle.stack)
      /\ bundle.window.kind = "cleanup-state-actions-required"
      /\ answered' = {} /\ events' = events
      /\ bundle' = StateActionsApplied([bundle EXCEPT !.damaged = FALSE])
  BY DEF ApplyStateActions, MayApplyStateActions, Becomes
<1>3. bundle' = b BY <1>1, <1>2 DEF StateActionsApplied, Bundles
<1>4. bundle.hand[bundle.active] <= MaximumHand[bundle.active]
  BY <1>2 DEF Inv, EndsClean
<1>5. w \in Windows BY <1>1, WindowTypes
<1>6. w.kind = "sba-check-required" /\ w.player = bundle.active /\ w.grant = FALSE
  BY DEF SbaCheck
<1> HIDE DEF w
<1>7. /\ b \in Bundles /\ b.window = w /\ b.order = bundle.order
      /\ b.active = bundle.active /\ b.stack = bundle.stack
      /\ b.pending = bundle.pending /\ b.position = bundle.position
      /\ b.hand = bundle.hand /\ b.mana = {} /\ b.damaged = FALSE
  BY <1>1, <1>5 DEF Bundles
<1> HIDE DEF b
<1>8. AsksRightly(b)
  BY <1>1, <1>2, <1>6, <1>7 DEF AsksRightly, Asking, Seated
<1>9. EndsClean(b)
  BY <1>2, <1>4, <1>6, <1>7 DEF EndsClean, Clean, Empty
<1> QED BY <1>1, <1>2, <1>3, <1>7, <1>8, <1>9, AskInstead

LEMMA RepeatCleanupStep == ASSUME Inv, RepeatCleanup PROVE Inv'
<1> DEFINE w == CleanupWindow(bundle)
           b == [bundle EXCEPT !.window = w]
<1>1. /\ bundle \in Bundles /\ bundle.active \in Seated(bundle)
      /\ bundle.active \in Players /\ events \in 0 .. MaxEvents
  BY Reading
<1>2. /\ bundle.position = "cleanup"
      /\ bundle' = b /\ answered' = {} /\ events' = events
  BY DEF RepeatCleanup, MayRepeatCleanup, Becomes, CleanupRepeated
<1>3. /\ w \in Windows /\ w.player = bundle.active
      /\ w.kind \in {"cleanup-discard-required", "cleanup-state-actions-required"}
      /\ w.kind = "cleanup-state-actions-required"
           => bundle.hand[bundle.active] <= MaximumHand[bundle.active]
  BY <1>1, WindowOfCleanup
<1> HIDE DEF w
<1>4. /\ b \in Bundles /\ b.window = w /\ b.order = bundle.order
      /\ b.active = bundle.active /\ b.stack = bundle.stack
      /\ b.pending = bundle.pending /\ b.position = bundle.position
      /\ b.hand = bundle.hand
  BY <1>1, <1>3, NewWindow
<1> HIDE DEF b
<1>5. AsksRightly(b) /\ EndsClean(b)
  BY <1>1, <1>2, <1>3, <1>4 DEF AsksRightly, Asking, EndsClean, Seated
<1> QED BY <1>1, <1>2, <1>4, <1>5, AskInstead

LEMMA StartTurnStep == ASSUME Inv, StartTurn PROVE Inv'
<1> DEFINE p == Ahead(bundle, bundle.active, 1)
           w == TurnAction(p)
           b == [bundle EXCEPT !.active = p, !.turn = @ + 1, !.position = "untap",
                               !.mana = {}, !.window = w]
<1>1. /\ bundle \in Bundles /\ bundle.active \in Seated(bundle)
      /\ Seated(bundle) \subseteq Players /\ events \in 0 .. MaxEvents
      /\ NoTriggerIsOnTheStack(bundle)
  BY Reading
<1>2. bundle' = b /\ answered' = {} /\ events' = events
  BY DEF StartTurn, Becomes, TurnStarted
<1>3. p \in Seated(bundle) /\ p \in Players BY <1>1, AheadIsSeated, Tables
<1>4. w \in Windows BY <1>3, WindowTypes
<1>5. w.kind = "turn-based-action-required" /\ w.player = p BY DEF TurnAction
<1> HIDE DEF p, w
<1>6. /\ b \in Bundles /\ b.window = w /\ b.order = bundle.order
      /\ b.active = p /\ b.stack = bundle.stack
      /\ b.pending = bundle.pending /\ b.position = "untap"
  <2>1. bundle.turn + 1 \in Nat \ {0} BY <1>1, BundleFields
  <2>2. "untap" \in Positions BY DEF Positions
  <2> HIDE DEF Positions
  <2> QED BY <1>1, <1>3, <1>4, <2>1, <2>2 DEF Bundles
<1> HIDE DEF b
<1>7. AsksRightly(b) /\ EndsClean(b) /\ b.active \in Seated(b)
  BY <1>3, <1>5, <1>6 DEF AsksRightly, Asking, EndsClean, Seated
<1>8. NoTriggerIsOnTheStack(b) BY <1>1, <1>6, SameObjects
<1> QED BY <1>1, <1>2, <1>6, <1>7, <1>8, AskedNext
-----------------------------------------------------------------------------
(* The stack *)

(* A resolution, whatever its effect did to the hands, the damage and the mana. *)
LEMMA Resolution ==
  ASSUME Inv, bundle.window.kind = "resolution-ready", NEW c \in Bundles,
         c.order = bundle.order, c.active = bundle.active, c.stack = bundle.stack,
         c.pending = bundle.pending, c.position = bundle.position,
         bundle' = Resolved(c), answered' = {}, events' \in 0 .. MaxEvents
  PROVE  Inv'
<1> DEFINE w == SbaCheck(c.active, TRUE)
           s == SubSeq(c.stack, 1, Len(c.stack) - 1)
           b == [c EXCEPT !.stack = s, !.window = w]
<1>1. /\ bundle \in Bundles /\ bundle.active \in Seated(bundle)
      /\ NoTriggerIsOnTheStack(bundle) /\ ValidBundle(bundle)
  BY Reading DEF Inv
<1>2. bundle' = b BY DEF Resolved
<1>3. w \in Windows /\ c.stack \in Seq(Objects) BY BundleFields, WindowTypes
<1>4. c.stack # <<>> BY <1>1 DEF ValidBundle, ResolvesTheTop, Empty
<1>5. s \in Seq(Objects) /\ Items(s) \subseteq Items(bundle.stack)
  BY <1>3, <1>4, BelowTheTop
<1>6. bundle.position # "untap"
  BY <1>1 DEF ValidBundle, WindowFitsPosition
<1>7. w.kind = "sba-check-required" /\ w.player = c.active /\ w.grant
  BY DEF SbaCheck
<1> HIDE DEF w, s
<1>8. /\ b \in Bundles /\ b.window = w /\ b.order = bundle.order
      /\ b.active = bundle.active /\ b.stack = s /\ b.pending = bundle.pending
      /\ b.position = bundle.position
  BY <1>3, <1>5 DEF Bundles
<1> HIDE DEF b
<1>9. AsksRightly(b) /\ EndsClean(b) /\ b.active \in Seated(b)
  BY <1>1, <1>6, <1>7, <1>8 DEF AsksRightly, Asking, EndsClean, Seated
<1>10. NoTriggerIsOnTheStack(b) BY <1>1, <1>5, <1>8 DEF NoTriggerIsOnTheStack
<1> QED BY <1>2, <1>8, <1>9, <1>10, AskedNext

LEMMA ResolveStep == ASSUME Inv, Resolve PROVE Inv'
<1>1. /\ bundle \in Bundles /\ events \in 0 .. MaxEvents BY Reading
<1> QED BY <1>1, Resolution DEF Resolve, Becomes

LEMMA ResolveDrawingStep ==
  ASSUME Inv, NEW p \in Players, ResolveDrawing(p) PROVE Inv'
<1> DEFINE c == [bundle EXCEPT !.hand[p] = @ + 1]
<1>1. /\ bundle \in Bundles /\ bundle.hand \in [Players -> Nat]
      /\ events \in 0 .. MaxEvents
  BY Reading, BundleFields
<1>2. [bundle.hand EXCEPT ![p] = @ + 1] \in [Players -> Nat] BY <1>1
<1>3. /\ c \in Bundles /\ c.order = bundle.order /\ c.active = bundle.active
      /\ c.stack = bundle.stack /\ c.pending = bundle.pending
      /\ c.position = bundle.position
  BY <1>1, <1>2 DEF Bundles
<1>4. /\ bundle.window.kind = "resolution-ready" /\ bundle' = Resolved(c)
      /\ answered' = {} /\ events' \in 0 .. MaxEvents
  BY <1>1 DEF ResolveDrawing, Happens
<1> HIDE DEF c
<1> QED BY <1>3, <1>4, Resolution

LEMMA ResolveDamagingStep ==
  ASSUME Inv, NEW p \in Players, ResolveDamaging(p) PROVE Inv'
<1> DEFINE c == [bundle EXCEPT !.damaged = TRUE, !.mana = @ \union {p}]
<1>1. /\ bundle \in Bundles /\ events \in 0 .. MaxEvents
      /\ bundle.mana \union {p} \in SUBSET Players
  BY Reading, BundleFields
<1>2. /\ c \in Bundles /\ c.order = bundle.order /\ c.active = bundle.active
      /\ c.stack = bundle.stack /\ c.pending = bundle.pending
      /\ c.position = bundle.position
  BY <1>1 DEF Bundles
<1>3. /\ bundle.window.kind = "resolution-ready" /\ bundle' = Resolved(c)
      /\ answered' = {} /\ events' \in 0 .. MaxEvents
  BY <1>1 DEF ResolveDamaging, Happens
<1> HIDE DEF c
<1> QED BY <1>2, <1>3, Resolution

LEMMA CastStep ==
  ASSUME Inv, NEW p \in Players, NEW o \in Objects \ Abilities, Cast(p, o)
  PROVE  Inv'
<1> DEFINE h == [bundle.hand EXCEPT ![p] = @ - 1]
           s == Append(bundle.stack, o)
           w == SbaCheck(p, TRUE)
           b == [bundle EXCEPT !.hand = h, !.stack = s, !.window = w]
<1>1. /\ bundle \in Bundles /\ bundle.active \in Seated(bundle)
      /\ bundle.hand \in [Players -> Nat] /\ bundle.stack \in Seq(Objects)
      /\ ValidBundle(bundle) /\ NoTriggerIsOnTheStack(bundle)
      /\ events \in 0 .. MaxEvents
  BY Reading, BundleFields DEF Inv
<1>2. /\ bundle.window.kind = "priority" /\ bundle.window.player = p
      /\ bundle.hand[p] > 0
      /\ bundle' = Resumed(Committed([bundle EXCEPT !.hand[p] = @ - 1], o), p)
      /\ answered' = {} /\ events' \in 0 .. MaxEvents
  BY <1>1 DEF Cast, MayPass, Happens
<1>3. bundle' = b BY <1>1, <1>2 DEF Resumed, Committed, Bundles
<1>4. /\ p \in Seated(bundle) /\ bundle.pending = <<>> /\ bundle.position # "untap"
  BY <1>1, <1>2 DEF ValidBundle, WindowPlayersAreSeated, PlayerKinds,
     TriggersAreSettled, SettledKinds, Empty, WindowFitsPosition
<1>5. h \in [Players -> Nat] BY <1>1, <1>2
<1>6. s \in Seq(Objects) /\ w \in Windows BY <1>1, OneMoreItem, WindowTypes
<1>7. w.kind = "sba-check-required" /\ w.player = p /\ w.grant BY DEF SbaCheck
<1> HIDE DEF h, s, w
<1>8. /\ b \in Bundles /\ b.window = w /\ b.order = bundle.order
      /\ b.active = bundle.active /\ b.stack = s /\ b.pending = bundle.pending
      /\ b.position = bundle.position
  BY <1>1, <1>5, <1>6 DEF Bundles
<1> HIDE DEF b
<1>9. AsksRightly(b) /\ EndsClean(b) /\ b.active \in Seated(b)
  BY <1>1, <1>4, <1>7, <1>8 DEF AsksRightly, Asking, EndsClean, Seated
<1>10. NoTriggerIsOnTheStack(b) BY <1>4, <1>8 DEF NoTriggerIsOnTheStack, Items
<1> QED BY <1>2, <1>3, <1>8, <1>9, <1>10, AskedNext
-----------------------------------------------------------------------------
(* State-based actions and triggered abilities *)

LEMMA SbaAppliedStep == ASSUME Inv, SbaApplied PROVE Inv'
<1> DEFINE w == SbaCheck(bundle.window.player,
                         bundle.window.grant \/ bundle.position = "cleanup")
           b == [bundle EXCEPT !.window = w]
<1>1. /\ bundle \in Bundles /\ bundle.active \in Seated(bundle)
      /\ bundle.window \in Windows /\ Seated(bundle) \subseteq Players
      /\ events \in 0 .. MaxEvents /\ ValidBundle(bundle)
  BY Reading, BundleFields DEF Inv
<1>2. /\ bundle.window.kind = "sba-check-required"
      /\ bundle' = b /\ answered' = {} /\ events' \in 0 .. MaxEvents
  BY <1>1 DEF SbaApplied, Happens, SbaRecorded
<1>3. bundle.window.player \in Seated(bundle) /\ bundle.position # "untap"
  BY <1>1, <1>2 DEF ValidBundle, WindowPlayersAreSeated, PlayerKinds,
     WindowFitsPosition
<1>4. bundle.window.grant \in BOOLEAN BY <1>1, <1>2, WindowFields
<1>5. (bundle.window.grant \/ bundle.position = "cleanup") = TRUE
  BY <1>2, <1>4 DEF Inv, EndsClean
<1>6. w \in Windows BY <1>1, <1>3, <1>5, WindowTypes
<1>7. /\ w.kind = "sba-check-required" /\ w.player = bundle.window.player
      /\ w.grant = TRUE
  BY <1>5 DEF SbaCheck
<1> HIDE DEF w
<1>8. /\ b \in Bundles /\ b.window = w /\ b.order = bundle.order
      /\ b.active = bundle.active /\ b.stack = bundle.stack
      /\ b.pending = bundle.pending /\ b.position = bundle.position
  BY <1>1, <1>6, NewWindow
<1> HIDE DEF b
<1>9. AsksRightly(b) /\ EndsClean(b)
  BY <1>3, <1>7, <1>8 DEF AsksRightly, Asking, EndsClean, Seated
<1> QED BY <1>2, <1>8, <1>9, AskInstead

LEMMA SbaIsStableStep == ASSUME Inv, SbaIsStable PROVE Inv'
<1> DEFINE p == bundle.window.player
<1>1. /\ bundle \in Bundles /\ bundle.active \in Seated(bundle)
      /\ bundle.window \in Windows /\ Seated(bundle) \subseteq Players
      /\ bundle.pending \in Seq(Objects)
      /\ events \in 0 .. MaxEvents /\ ValidBundle(bundle)
      /\ NoTriggerIsOnTheStack(bundle)
  BY Reading, BundleFields DEF Inv
<1>2. /\ bundle.window.kind = "sba-check-required"
      /\ bundle' = SbaRecorded(bundle, FALSE) /\ answered' = {} /\ events' = events
  BY DEF SbaIsStable, Becomes
<1>3. p \in Seated(bundle) /\ p \in Players /\ bundle.position # "untap"
  BY <1>1, <1>2 DEF ValidBundle, WindowPlayersAreSeated, PlayerKinds,
     WindowFitsPosition
<1>4. bundle.window.grant \in BOOLEAN BY <1>1, <1>2, WindowFields
<1> HIDE DEF p
<1>5. CASE bundle.pending # <<>>
  <2> DEFINE w == TriggerOrder(p, bundle.pending)
             b == [bundle EXCEPT !.window = w]
  <2>1. bundle' = b BY <1>2, <1>5 DEF SbaRecorded, Empty, p
  <2>2. w \in Windows BY <1>1, <1>3, WindowTypes
  <2>3. /\ w.kind = "trigger-order-required" /\ w.player = p
        /\ w.pending = bundle.pending
    BY DEF TriggerOrder
  <2> HIDE DEF w
  <2>4. /\ b \in Bundles /\ b.window = w /\ b.order = bundle.order
        /\ b.active = bundle.active /\ b.stack = bundle.stack
        /\ b.pending = bundle.pending /\ b.position = bundle.position
    BY <1>1, <2>2, NewWindow
  <2> HIDE DEF b
  <2>5. NoTriggerIsOnTheStack(b) BY <1>1, <2>4, SameObjects
  <2>6. ValidBundle(b)
    BY <1>3, <2>3, <2>4, <2>5 DEF ValidBundle, WindowFitsPosition,
       WindowPlayersAreSeated, PassesAreContiguous, TriggersAreSettled,
       StackIsSettled, ResolvesTheTop, CleanupKinds, SettledKinds, BoundaryKinds,
       PlayerKinds, Seated
  <2>7. TypeOK' BY <1>1, <1>2, <2>1, <2>4 DEF TypeOK
  <2>8. EndsClean(b) /\ b.active \in Seated(b)
    BY <1>1, <2>3, <2>4 DEF EndsClean, Seated
  <2>9. AnswersArePasses' /\ EveryoneAnswered'
    BY <2>1, <2>3, <2>4 DEF AnswersArePasses, EveryoneAnswered
  <2> QED BY <2>1, <2>6, <2>7, <2>8, <2>9 DEF Inv
<1>6. CASE bundle.pending = <<>> /\ bundle.window.grant
  <2> DEFINE w == Priority(p, p, <<>>)
             b == [bundle EXCEPT !.window = w]
  <2>1. bundle' = b BY <1>2, <1>6 DEF SbaRecorded, Empty, p
  <2>2. w \in Windows
    <3>1. <<>> \in Seq(Players) OBVIOUS
    <3> QED BY <1>3, <3>1, WindowTypes
  <2>3. w.kind = "priority" /\ w.player = p /\ w.start = p /\ w.passed = <<>>
    BY DEF Priority
  <2> HIDE DEF w
  <2>4. /\ b \in Bundles /\ b.window = w /\ b.order = bundle.order
        /\ b.active = bundle.active /\ b.stack = bundle.stack
        /\ b.pending = bundle.pending /\ b.position = bundle.position
    BY <1>1, <2>2, NewWindow
  <2> HIDE DEF b
  <2>5. NoTriggerIsOnTheStack(b) BY <1>1, <2>4, SameObjects
  <2>6. p \in Seated(b) BY <1>3, <2>4 DEF Seated
  <2>7. Ahead(b, p, 0) = p /\ Len(b.order) \in Nat \ {0}
    <3>1. IsTable(b) BY <2>4, Tables
    <3> QED BY <2>6, <3>1, AheadOfNobody DEF IsTable
  <2>8. PassesAreContiguous(b)
    <3>1. Len(w.passed) = 0 /\ DOMAIN w.passed = {} BY <2>3
    <3> QED BY <2>3, <2>4, <2>7, <3>1 DEF PassesAreContiguous
  <2>9. ValidBundle(b)
    BY <1>3, <1>6, <2>3, <2>4, <2>5, <2>6, <2>8 DEF ValidBundle, WindowFitsPosition,
       WindowPlayersAreSeated, TriggersAreSettled,
       StackIsSettled, ResolvesTheTop, CleanupKinds, SettledKinds, BoundaryKinds,
       PlayerKinds, Empty
  <2>10. TypeOK' BY <1>1, <1>2, <2>1, <2>4 DEF TypeOK
  <2>11. EndsClean(b) /\ b.active \in Seated(b)
    BY <1>1, <2>3, <2>4 DEF EndsClean, Seated
  <2>12. AnswersArePasses' /\ EveryoneAnswered'
    <3>1. Items(w.passed) = {} BY <2>3 DEF Items
    <3> QED BY <1>2, <2>1, <2>3, <2>4, <3>1 DEF AnswersArePasses, EveryoneAnswered
  <2> QED BY <2>1, <2>9, <2>10, <2>11, <2>12 DEF Inv
<1>7. CASE bundle.pending = <<>> /\ ~bundle.window.grant
  <2> DEFINE w == TurnReady
             b == [bundle EXCEPT !.window = w]
  <2>1. bundle' = b BY <1>2, <1>7 DEF SbaRecorded, Empty, p
  <2>2. w \in Windows BY ReadyTypes
  <2>3. w.kind = "turn-advance-ready" BY DEF TurnReady
  <2> HIDE DEF w
  <2>4. /\ b \in Bundles /\ b.window = w /\ b.order = bundle.order
        /\ b.active = bundle.active /\ b.stack = bundle.stack
        /\ b.pending = bundle.pending /\ b.position = bundle.position
        /\ b.hand = bundle.hand /\ b.mana = bundle.mana
        /\ b.damaged = bundle.damaged
    BY <1>1, <2>2, NewWindow
  <2> HIDE DEF b
  <2>5. bundle.position = "cleanup" /\ Empty(bundle.stack) /\ Clean(bundle)
    BY <1>2, <1>7 DEF Inv, EndsClean
  <2>6. ValidBundle(b)
    BY <1>7, <2>3, <2>4, <2>5 DEF ValidBundle, WindowFitsPosition,
       WindowPlayersAreSeated, PassesAreContiguous, TriggersAreSettled,
       StackIsSettled, ResolvesTheTop, NoTriggerIsOnTheStack, CleanupKinds,
       SettledKinds, BoundaryKinds, PlayerKinds, Empty, Items
  <2>7. TypeOK' BY <1>1, <1>2, <2>1, <2>4 DEF TypeOK
  <2>8. EndsClean(b) /\ b.active \in Seated(b)
    BY <1>1, <2>3, <2>4, <2>5 DEF EndsClean, Clean, Seated
  <2>9. AnswersArePasses' /\ EveryoneAnswered'
    BY <2>1, <2>3, <2>4 DEF AnswersArePasses, EveryoneAnswered
  <2> QED BY <2>1, <2>6, <2>7, <2>8, <2>9 DEF Inv
<1> QED BY <1>4, <1>5, <1>6, <1>7

LEMMA AppendTriggerStep ==
  ASSUME Inv, NEW o \in Objects, AppendTrigger(o) PROVE Inv'
<1> DEFINE s == Append(bundle.pending, o)
           b == [bundle EXCEPT !.pending = s]
<1>1. /\ bundle \in Bundles /\ bundle.active \in Seated(bundle)
      /\ bundle.pending \in Seq(Objects) /\ events \in 0 .. MaxEvents
      /\ EndsClean(bundle)
  BY Reading, BundleFields DEF Inv
<1>2. /\ ValidBundle(b) /\ bundle' = b /\ events' \in 0 .. MaxEvents
      /\ answered' = {}
  BY <1>1 DEF AppendTrigger, Happens, Appended
<1>3. s \in Seq(Objects) /\ s # <<>>
  <2>1. s \in Seq(Objects) BY <1>1, OneMoreItem
  <2>2. Len(s) = Len(bundle.pending) + 1 /\ Len(bundle.pending) \in Nat BY <1>1
  <2> HIDE DEF s
  <2>3. s # <<>> BY <2>2
  <2> QED BY <2>1, <2>3
<1> HIDE DEF s
<1>4. /\ b \in Bundles /\ b.window = bundle.window /\ b.order = bundle.order
      /\ b.active = bundle.active /\ b.stack = bundle.stack
      /\ b.pending = s /\ b.position = bundle.position /\ b.hand = bundle.hand
      /\ b.mana = bundle.mana /\ b.damaged = bundle.damaged
  BY <1>1, <1>3 DEF Bundles
<1> HIDE DEF b
<1>5. b.window.kind \notin SettledKinds
  BY <1>2, <1>3, <1>4 DEF ValidBundle, TriggersAreSettled, Empty
<1>6. TypeOK' BY <1>2, <1>4 DEF TypeOK
<1>7. EndsClean(b) /\ b.active \in Seated(b)
  BY <1>1, <1>4 DEF EndsClean, Clean, Seated
<1>8. AnswersArePasses' /\ EveryoneAnswered'
  BY <1>2, <1>5 DEF AnswersArePasses, EveryoneAnswered, SettledKinds, BoundaryKinds
<1> QED BY <1>2, <1>6, <1>7, <1>8 DEF Inv

LEMMA PlacedObjects ==
  ASSUME NEW os \in Seq(Objects), NEW s \in Placements(os) PROVE s \in Seq(Objects)
<1>1. DOMAIN os = 1 .. Len(os) /\ Len(os) \in Nat OBVIOUS
<1>2. s \in [1 .. Len(os) -> Items(os)] BY <1>1 DEF Placements
<1>3. Items(os) \subseteq Objects BY <1>1 DEF Items
<1>4. s \in [1 .. Len(os) -> Objects] BY <1>2, <1>3
<1> QED BY <1>1, <1>4, SeqDef

LEMMA PlaceTriggersStep == ASSUME Inv, PlaceTriggers PROVE Inv'
<1>1. /\ bundle \in Bundles /\ bundle.active \in Seated(bundle)
      /\ bundle.pending \in Seq(Objects) /\ bundle.stack \in Seq(Objects)
      /\ events \in 0 .. MaxEvents /\ ValidBundle(bundle)
      /\ Seated(bundle) \subseteq Players
  BY Reading, BundleFields DEF Inv
<1>2. PICK s \in Placements(bundle.pending) : Becomes(Placed(bundle, s))
  BY DEF PlaceTriggers
<1> DEFINE k == bundle.stack \o s
           w == SbaCheck(bundle.window.player, TRUE)
           b == [bundle EXCEPT !.stack = k, !.pending = <<>>, !.window = w]
<1>3. bundle' = b /\ answered' = {} /\ events' = events
  BY <1>2 DEF Becomes, Placed
<1>4. bundle.window.player \in Seated(bundle) /\ bundle.position # "untap"
  BY <1>1 DEF PlaceTriggers, ValidBundle, WindowPlayersAreSeated, PlayerKinds,
     WindowFitsPosition
<1>5. s \in Seq(Objects) BY <1>1, PlacedObjects
<1>6. k \in Seq(Objects) BY <1>1, <1>5
<1>7. w \in Windows /\ <<>> \in Seq(Objects)
  <2>1. bundle.window.player \in Players BY <1>1, <1>4
  <2>2. w \in Windows BY <2>1, WindowTypes
  <2>3. <<>> \in Seq(Objects) OBVIOUS
  <2> QED BY <2>2, <2>3
<1>8. /\ w.kind = "sba-check-required" /\ w.player = bundle.window.player
      /\ w.grant = TRUE
  BY DEF SbaCheck
<1> HIDE DEF k, w
<1>9. /\ b \in Bundles /\ b.window = w /\ b.order = bundle.order
      /\ b.active = bundle.active /\ b.stack = k /\ b.pending = <<>>
      /\ b.position = bundle.position
  BY <1>1, <1>6, <1>7 DEF Bundles
<1> HIDE DEF b
<1>10. AsksRightly(b) /\ EndsClean(b) /\ b.active \in Seated(b)
  BY <1>1, <1>4, <1>8, <1>9 DEF AsksRightly, Asking, EndsClean, Seated
<1>11. NoTriggerIsOnTheStack(b) BY <1>9 DEF NoTriggerIsOnTheStack, Items
<1> QED BY <1>1, <1>3, <1>9, <1>10, <1>11, AskedNext
-----------------------------------------------------------------------------
(* Passing priority *)

LEMMA SameOrder ==
  ASSUME NEW b, NEW c, b.order = c.order, NEW p, NEW k
  PROVE  Ahead(b, p, k) = Ahead(c, p, k)
BY DEF Ahead, Seat

(* With one more pass, those who passed are still the players from the start of
   the cycle on. *)
LEMMA OneMorePass ==
  ASSUME Inv, bundle.window.kind = "priority"
  PROVE  LET w  == bundle.window
             ps == Append(w.passed, w.player)
         IN  /\ w.start \in Seated(bundle) /\ w.player \in Seated(bundle)
             /\ ps \in Seq(Players) /\ Len(ps) \in 1 .. Len(bundle.order)
             /\ DOMAIN ps = 1 .. Len(ps)
             /\ \A i \in 1 .. Len(ps) : ps[i] = Ahead(bundle, w.start, i - 1)
             /\ Ahead(bundle, w.player, 1) = Ahead(bundle, w.start, Len(ps))
             /\ answered \union {w.player} = Items(ps)
<1> DEFINE w == bundle.window
<1>1. /\ IsTable(bundle) /\ ValidBundle(bundle) /\ w \in Windows
  BY Reading, BundleFields, Tables DEF Inv
<1>2. answered = Items(w.passed) BY DEF Inv, AnswersArePasses
<1> HIDE DEF w
<1>3. Items(Append(w.passed, w.player)) = answered \union {w.player}
  BY <1>1, <1>2, PassAgain DEF w
<1> QED BY <1>1, <1>3, PassAgain DEF w

LEMMA PassStep == ASSUME Inv, NEW p \in Players, Pass(p) PROVE Inv'
<1> DEFINE v  == bundle.window
           ps == Append(v.passed, v.player)
<1>1. /\ bundle \in Bundles /\ bundle.active \in Seated(bundle)
      /\ Seated(bundle) \subseteq Players /\ bundle.stack \in Seq(Objects)
      /\ events \in 0 .. MaxEvents /\ ValidBundle(bundle)
      /\ NoTriggerIsOnTheStack(bundle) /\ Len(bundle.order) \in Nat \ {0}
      /\ answered \subseteq Players
  BY Reading, BundleFields, Tables DEF Inv
<1>2. /\ v.kind = "priority" /\ v.player = p
      /\ bundle' = Passed(bundle) /\ answered' = answered \union {v.player}
      /\ events' = events
  BY DEF Pass, MayPass
<1>3. bundle.pending = <<>> /\ bundle.position # "untap"
  BY <1>1, <1>2 DEF ValidBundle, TriggersAreSettled, SettledKinds, Empty,
     WindowFitsPosition
<1>4. /\ v.start \in Seated(bundle) /\ v.player \in Seated(bundle)
      /\ ps \in Seq(Players) /\ Len(ps) \in 1 .. Len(bundle.order)
      /\ DOMAIN ps = 1 .. Len(ps)
      /\ \A i \in 1 .. Len(ps) : ps[i] = Ahead(bundle, v.start, i - 1)
      /\ Ahead(bundle, v.player, 1) = Ahead(bundle, v.start, Len(ps))
      /\ answered' = Items(ps)
  BY <1>2, OneMorePass
<1>5. bundle' = [bundle EXCEPT !.window =
                   IF Len(ps) = Len(bundle.order) THEN AfterEveryonePassed(bundle)
                   ELSE Priority(v.start, Ahead(bundle, v.player, 1), ps)]
  BY <1>2 DEF Passed
<1> HIDE DEF ps, v
<1>6. answered' \subseteq Players /\ events' \in 0 .. MaxEvents
  BY <1>1, <1>2, <1>4
<1>7. CASE Len(ps) # Len(bundle.order)
  <2> DEFINE w == Priority(v.start, Ahead(bundle, v.player, 1), ps)
             b == [bundle EXCEPT !.window = w]
  <2>1. bundle' = b BY <1>5, <1>7
  <2>2. Ahead(bundle, v.player, 1) \in Seated(bundle) BY <1>1, <1>4, AheadIsSeated, Tables
  <2>3. w \in Windows BY <1>1, <1>4, <2>2, WindowTypes
  <2>4. /\ w.kind = "priority" /\ w.start = v.start
        /\ w.player = Ahead(bundle, v.player, 1) /\ w.passed = ps
    BY DEF Priority
  <2> HIDE DEF w
  <2>5. /\ b \in Bundles /\ b.window = w /\ b.order = bundle.order
        /\ b.active = bundle.active /\ b.stack = bundle.stack
        /\ b.pending = bundle.pending /\ b.position = bundle.position
    BY <1>1, <2>3, NewWindow
  <2> HIDE DEF b
  <2>6. NoTriggerIsOnTheStack(b) BY <1>1, <2>5, SameObjects
  <2>7. \A q, k : Ahead(b, q, k) = Ahead(bundle, q, k) BY <2>5, SameOrder
  <2>8. PassesAreContiguous(b)
    <3>1. Len(ps) < Len(b.order) BY <1>1, <1>4, <1>7, <2>5
    <3>2. \A i \in DOMAIN ps : ps[i] = Ahead(b, v.start, i - 1) BY <1>4, <2>7
    <3>3. w.player = Ahead(b, v.start, Len(ps)) BY <1>4, <2>4, <2>7
    <3> QED BY <2>4, <2>5, <3>1, <3>2, <3>3 DEF PassesAreContiguous
  <2>9. ValidBundle(b)
    BY <1>3, <1>4, <2>2, <2>4, <2>5, <2>6, <2>8 DEF ValidBundle,
       WindowFitsPosition, WindowPlayersAreSeated, TriggersAreSettled,
       StackIsSettled, ResolvesTheTop, CleanupKinds, SettledKinds, BoundaryKinds,
       PlayerKinds, Empty, Seated
  <2>10. TypeOK' BY <1>6, <2>1, <2>5 DEF TypeOK
  <2>11. EndsClean(b) /\ b.active \in Seated(b)
    BY <1>1, <2>4, <2>5 DEF EndsClean, Seated
  <2>12. AnswersArePasses' /\ EveryoneAnswered'
    BY <1>4, <2>1, <2>4, <2>5 DEF AnswersArePasses, EveryoneAnswered
  <2> QED BY <2>1, <2>9, <2>10, <2>11, <2>12 DEF Inv
<1>8. CASE Len(ps) = Len(bundle.order)
  <2> DEFINE w == AfterEveryonePassed(bundle)
             b == [bundle EXCEPT !.window = w]
  <2>1. bundle' = b BY <1>5, <1>8
  <2>2. answered' = Seated(bundle) BY <1>1, <1>4, <1>8, EverybodyPassed, Tables
  <2>3. /\ w \in Windows
        /\ \/ /\ bundle.stack # <<>> /\ w.kind = "resolution-ready"
              /\ w.object = Top(bundle.stack)
           \/ /\ bundle.stack = <<>> /\ bundle.position = "cleanup"
              /\ w.kind = "cleanup-repeat-ready"
           \/ /\ bundle.stack = <<>> /\ bundle.position # "cleanup"
              /\ w.kind = "position-advance-ready"
    <3>1. CASE bundle.stack # <<>>
      <4>1. Top(bundle.stack) \in Objects BY <1>1, <3>1 DEF Top
      <4> QED BY <3>1, <4>1, ReadyTypes DEF AfterEveryonePassed, ResolutionReady, Empty
    <3>2. CASE bundle.stack = <<>>
      BY <3>2, ReadyTypes DEF AfterEveryonePassed, RepeatReady, PositionReady, Empty
    <3> QED BY <3>1, <3>2
  <2> HIDE DEF w
  <2>4. /\ b \in Bundles /\ b.window = w /\ b.order = bundle.order
        /\ b.active = bundle.active /\ b.stack = bundle.stack
        /\ b.pending = bundle.pending /\ b.position = bundle.position
    BY <1>1, <2>3, NewWindow
  <2> HIDE DEF b
  <2>5. NoTriggerIsOnTheStack(b) BY <1>1, <2>4, SameObjects
  <2>6. ValidBundle(b)
    BY <1>3, <2>3, <2>4, <2>5 DEF ValidBundle, WindowFitsPosition,
       WindowPlayersAreSeated, PassesAreContiguous, TriggersAreSettled,
       StackIsSettled, ResolvesTheTop, CleanupKinds, SettledKinds, BoundaryKinds,
       PlayerKinds, Empty
  <2>7. TypeOK' BY <1>6, <2>1, <2>4 DEF TypeOK
  <2>8. EndsClean(b) /\ b.active \in Seated(b)
    BY <1>1, <2>3, <2>4 DEF EndsClean, Seated
  <2>9. AnswersArePasses' BY <2>1, <2>3, <2>4 DEF AnswersArePasses
  <2>10. EveryoneAnswered' BY <2>1, <2>2, <2>4 DEF EveryoneAnswered, Seated
  <2> QED BY <2>1, <2>6, <2>7, <2>8, <2>9, <2>10 DEF Inv
<1> QED BY <1>7, <1>8

-----------------------------------------------------------------------------
(* The invariant *)

LEMMA NextInv == Inv /\ [Next]_vars => Inv'
<1> SUFFICES ASSUME Inv, [Next]_vars PROVE Inv' OBVIOUS
<1>1. CASE \E p \in Players : Pass(p) BY <1>1, PassStep
<1>2. CASE Resolve \/ \E p \in Players : ResolveDrawing(p) \/ ResolveDamaging(p)
  BY <1>2, ResolveStep, ResolveDrawingStep, ResolveDamagingStep
<1>3. CASE SbaIsStable \/ SbaApplied BY <1>3, SbaIsStableStep, SbaAppliedStep
<1>4. CASE PlaceTriggers BY <1>4, PlaceTriggersStep
<1>5. CASE Checkpoint BY <1>5, CheckpointStep
<1>6. CASE \E to \in Positions : AdvancePosition(to)
  <2>1. events \in 0 .. MaxEvents BY Reading
  <2> QED BY <1>6, <2>1, AdvanceStep DEF AdvancePosition, Becomes
<1>7. CASE RepeatDamageStep
  <2>1. events' \in 0 .. MaxEvents
    <3>1. events \in 0 .. MaxEvents /\ MaxEvents \in Nat BY Reading
    <3> QED BY <1>7, <3>1 DEF RepeatDamageStep, Happens
  <2> QED BY <1>7, <2>1, AdvanceStep DEF RepeatDamageStep, Happens
<1>8. CASE SkipFirstDraw BY <1>8, SkipDrawStep
<1>9. CASE Discard \/ FinishDiscard \/ ApplyStateActions \/ RepeatCleanup
  BY <1>9, DiscardStep, FinishDiscardStep, StateActionsStep, RepeatCleanupStep
<1>10. CASE StartTurn BY <1>10, StartTurnStep
<1>11. CASE \E p \in Players, o \in Objects \ Abilities : Cast(p, o)
  BY <1>11, CastStep
<1>12. CASE \E o \in Abilities : AppendTrigger(o) BY <1>12, AppendTriggerStep
<1>13. CASE UNCHANGED vars
  <2> USE <1>13 DEF vars
  <2>1. TypeOK' BY DEF Inv, TypeOK
  <2>2. AnswersArePasses' /\ EveryoneAnswered'
    BY DEF Inv, AnswersArePasses, EveryoneAnswered
  <2>3. ValidBundle(bundle') /\ bundle'.active \in Seated(bundle') /\ EndsClean(bundle')
    BY DEF Inv
  <2> QED BY <2>1, <2>2, <2>3 DEF Inv
<1> QED
  BY <1>1, <1>2, <1>3, <1>4, <1>5, <1>6, <1>7, <1>8, <1>9, <1>10, <1>11, <1>12,
     <1>13 DEF Next, Progress, Environment

LEMMA Always == Spec => []Inv
BY InitInv, NextInv, PTL DEF Spec

(* After any sequence of turn operations, spells, triggers and resolutions, the
   bundle is one validateCoreTurnPriorityBundleV1 accepts, at a table of any
   size: the steps that do not check their result (turnAdvanceV1, cleanupV1)
   need not. *)
THEOREM BundlesStayValid == Spec => []BundleIsValid
<1>1. Inv => BundleIsValid BY DEF Inv, BundleIsValid
<1> QED BY <1>1, Always, PTL

(* Nothing resolves and no step ends before everybody at the table passed in
   succession (priorityPassV1): the passes of a cycle go once around the table,
   whoever began it. *)
THEOREM NobodyIsSkipped == Spec => []EveryoneAnswered
<1>1. Inv => EveryoneAnswered BY DEF Inv
<1> QED BY <1>1, Always, PTL

(* A turn ends without marked damage or floating mana and with the hand within
   its maximum, however often its cleanup was repeated (cleanupV1): the only
   check that grants no priority is the one after everything was removed. *)
THEOREM TurnsEndClean == Spec => []TurnEndsClean
<1>1. Inv => TurnEndsClean BY DEF Inv, EndsClean, Clean, TurnEndsClean
<1> QED BY <1>1, Always, PTL

-----------------------------------------------------------------------------
(* The order of the triggered abilities *)

(* Before a group and with it: how far the placement has come. *)
LEMMA Segments ==
  ASSUME NEW b, IsFiniteSet(Items(b.pending)), NEW k
  PROVE  LET before == {o \in Items(b.pending) : Precedes(GroupOf(b, o), k)}
         IN  /\ Offset(b, k) \in Nat /\ Cardinality(Group(b, k)) \in Nat
             /\ IsFiniteSet(before \union Group(b, k))
             /\ Cardinality(before \union Group(b, k))
                  <= Offset(b, k) + Cardinality(Group(b, k))
             /\ before \cap Group(b, k) = {}
                  => Cardinality(before \union Group(b, k))
                       = Offset(b, k) + Cardinality(Group(b, k))
<1> DEFINE P == Items(b.pending)
           before == {o \in P : Precedes(GroupOf(b, o), k)}
           group == Group(b, k)
<1>1. before \in SUBSET P /\ group \in SUBSET P
  BY DEF Group
<1>2. IsFiniteSet(before) /\ IsFiniteSet(group) BY <1>1, FS_Subset
<1>3. Cardinality(before) \in Nat /\ Cardinality(group) \in Nat BY <1>2, FS_CardinalityType
<1>4. /\ IsFiniteSet(before \union group)
      /\ Cardinality(before \union group) =
           Cardinality(before) + Cardinality(group) - Cardinality(before \cap group)
  BY <1>2, FS_Union
<1>5. Cardinality(before \cap group) \in Nat
  <2>1. before \cap group \in SUBSET before OBVIOUS
  <2>2. IsFiniteSet(before \cap group) BY <1>2, <2>1, FS_Subset
  <2> QED BY <2>2, FS_CardinalityType
<1>6. before \cap group = {} => Cardinality(before \cap group) = 0 BY FS_EmptySet
<1>7. Offset(b, k) = Cardinality(before) BY DEF Offset
<1> HIDE DEF before, group
<1>8. /\ Cardinality(before \union group) <= Offset(b, k) + Cardinality(group)
      /\ before \cap group = {} =>
           Cardinality(before \union group) = Offset(b, k) + Cardinality(group)
  BY <1>3, <1>4, <1>5, <1>6, <1>7
<1> QED BY <1>3, <1>4, <1>7, <1>8 DEF before, group

LEMMA KeysOf ==
  ASSUME NEW b \in Bundles, b.active \in Seated(b), NEW o \in Objects
  PROVE  /\ GroupOf(b, o) \in GroupKeys(b)
         /\ GroupOf(b, o).bucket = BucketOf[o] /\ BucketOf[o] \in {1, 2}
         /\ GroupOf(b, o).rank = ApnapRank(b, ControllerOf[o])
         /\ ApnapRank(b, ControllerOf[o]) \in Nat
<1> DEFINE n == Len(b.order)
           p == Seat(b, ControllerOf[o])
           a == Seat(b, b.active)
<1>1. n \in Nat \ {0} /\ p \in 1 .. n /\ a \in 1 .. n BY Tables, Seats
<1>2. ApnapRank(b, ControllerOf[o]) = (p + n - a) % n BY DEF ApnapRank
<1> HIDE DEF n, p, a
<1>3. p + n - a \in Nat BY <1>1
<1>4. (p + n - a) % n \in 0 .. n - 1 BY <1>1, <1>3, Rest
<1>5. BucketOf[o] \in {1, 2} OBVIOUS
<1>6. ApnapRank(b, ControllerOf[o]) \in 0 .. Len(b.order) - 1 BY <1>2, <1>4 DEF n
<1>7. ApnapRank(b, ControllerOf[o]) \in Nat
  <2>1. Len(b.order) \in Nat BY <1>1 DEF n
  <2> QED BY <1>6, <2>1
<1>8. /\ GroupOf(b, o).bucket = BucketOf[o]
      /\ GroupOf(b, o).rank = ApnapRank(b, ControllerOf[o])
  BY DEF GroupOf
<1>9. GroupOf(b, o) \in GroupKeys(b) BY <1>5, <1>6 DEF GroupOf, GroupKeys
<1> QED BY <1>5, <1>7, <1>8, <1>9

(* A placement of abilities that wait once each puts each in its segment, and so
   in the order of the groups. *)
LEMMA PlacedInOrder ==
  ASSUME NEW b \in Bundles, b.active \in Seated(b),
         \A i, j \in DOMAIN b.pending : b.pending[i] = b.pending[j] => i = j,
         NEW s \in Placements(b.pending), ValidPlacement(b, s),
         NEW x \in DOMAIN s, NEW y \in DOMAIN s, x < y
  PROVE  Below(b, s[x], s[y])
<1> DEFINE P == Items(b.pending)
           n == Len(b.pending)
           key(o) == GroupOf(b, o)
           before(k) == {o \in P : Precedes(key(o), k)}
<1>1. b.pending \in Seq(Objects) /\ n \in Nat /\ DOMAIN b.pending = 1 .. n
  <2>1. b.pending \in Seq(Objects) BY BundleFields
  <2> QED BY <2>1
<1>2. P \subseteq Objects BY <1>1 DEF Items
<1>3. s \in [1 .. n -> P] /\ Items(s) = P BY <1>1 DEF Placements
<1>4. IsFiniteSet(1 .. n) /\ Cardinality(1 .. n) = n
  <2>1. 1 \in Int /\ n \in Int BY <1>1
  <2>2. IsFiniteSet(1 .. n) /\ Cardinality(1 .. n) = IF 1 > n THEN 0 ELSE n - 1 + 1
    BY <2>1, FS_Interval
  <2> QED BY <1>1, <2>2
<1>5. IsFiniteSet(P) /\ Cardinality(P) = n
  <2> DEFINE f == b.pending
             D == 1 .. n
  <2>1. f \in [D -> P] BY <1>1 DEF Items
  <2>2. f \in Surjection(D, P) BY <1>1, <2>1 DEF Surjection, Items
  <2>3. f \in Injection(D, P) BY <1>1, <2>1 DEF Injection, IsInjective
  <2> HIDE DEF f, D, P
  <2>4. IsFiniteSet(P) /\ (Cardinality(P) = Cardinality(D) <=> f \in Injection(D, P))
    <3>1. IsFiniteSet(D) BY <1>4 DEF D
    <3> QED BY <2>2, <3>1, FS_Surjection
  <2> QED BY <1>4, <2>3, <2>4 DEF D
<1>6. \A c, d \in 1 .. n : s[c] = s[d] => c = d
  <2> DEFINE D == 1 .. n
  <2>1. s \in [D -> P] /\ {s[i] : i \in D} = P BY <1>3 DEF Items
  <2> HIDE DEF D, P
  <2>2. s \in Surjection(D, P) BY <2>1 DEF Surjection
  <2>3. IsFiniteSet(D) /\ Cardinality(D) = Cardinality(P) BY <1>4, <1>5 DEF D
  <2>4. s \in Injection(D, P) BY <2>2, <2>3, FS_SurjSameCardinalityImpliesInj
  <2> QED BY <2>4 DEF D, Injection, IsInjective
<1>7. ASSUME NEW o \in P
      PROVE  /\ key(o) \in GroupKeys(b) /\ key(o).bucket = BucketOf[o]
             /\ BucketOf[o] \in {1, 2} /\ key(o).rank = ApnapRank(b, ControllerOf[o])
             /\ ApnapRank(b, ControllerOf[o]) \in Nat
  BY <1>2, KeysOf
<1>8. ASSUME NEW k \in GroupKeys(b)
      PROVE  /\ Offset(b, k) \in Nat /\ Cardinality(Group(b, k)) \in Nat
             /\ IsFiniteSet(before(k) \union Group(b, k))
             /\ Cardinality(before(k) \union Group(b, k))
                  = Offset(b, k) + Cardinality(Group(b, k))
  <2>1. before(k) \cap Group(b, k) = {}
    <3> SUFFICES ASSUME NEW o \in P, Precedes(key(o), k), key(o) = k PROVE FALSE
      BY DEF Group
    <3>1. k.bucket \in {1, 2} /\ k.rank \in Nat BY <1>7
    <3> QED BY <3>1 DEF Precedes
  <2> QED BY <1>5, <2>1, Segments
<1>9. ASSUME NEW k \in GroupKeys(b)
      PROVE  Offset(b, k) + Cardinality(Group(b, k)) <= n
  <2>1. before(k) \union Group(b, k) \in SUBSET P BY DEF Group
  <2>2. Cardinality(before(k) \union Group(b, k)) <= Cardinality(P)
    BY <1>5, <2>1, FS_Subset
  <2> QED BY <1>5, <1>8, <2>2
<1>10. ASSUME NEW c \in 1 .. n
       PROVE  /\ c > Offset(b, key(s[c]))
              /\ c <= Offset(b, key(s[c])) + Cardinality(Group(b, key(s[c])))
  <2> DEFINE k == key(s[c])
             from == Offset(b, k)
             size == Cardinality(Group(b, k))
  <2>1. s[c] \in P BY <1>3
  <2>2. k \in GroupKeys(b) BY <1>7, <2>1
  <2>3. s[c] \in Group(b, k) BY <2>1 DEF Group
  <2>4. {s[d] : d \in from + 1 .. from + size} = Group(b, k)
    BY <2>2 DEF ValidPlacement
  <2>5. PICK d \in from + 1 .. from + size : s[d] = s[c] BY <2>3, <2>4
  <2>6. from \in Nat /\ size \in Nat /\ from + size <= n BY <1>8, <1>9, <2>2
  <2> HIDE DEF from, size, k
  <2>7. d \in 1 .. n /\ d > from /\ d <= from + size BY <1>1, <2>5, <2>6
  <2>8. d = c BY <1>6, <2>5, <2>7
  <2> QED BY <2>7, <2>8 DEF from, size, k
<1>11. ASSUME NEW k \in GroupKeys(b), NEW l \in GroupKeys(b), Precedes(l, k)
       PROVE  Offset(b, l) + Cardinality(Group(b, l)) <= Offset(b, k)
  <2>1. before(l) \union Group(b, l) \in SUBSET before(k)
    <3> SUFFICES ASSUME NEW o \in P, Precedes(key(o), l) \/ key(o) = l
                 PROVE  Precedes(key(o), k)
      BY DEF Group
    <3>1. /\ key(o).bucket \in {1, 2} /\ key(o).rank \in Nat
          /\ k.bucket \in {1, 2} /\ k.rank \in Nat /\ l.bucket \in {1, 2} /\ l.rank \in Nat
      BY <1>7 DEF GroupKeys
    <3> HIDE DEF key
    <3> QED BY <1>11, <3>1 DEF Precedes
  <2>2. before(k) \in SUBSET P OBVIOUS
  <2>3. IsFiniteSet(before(k)) BY <1>5, <2>2, FS_Subset
  <2>4. Cardinality(before(l) \union Group(b, l)) <= Cardinality(before(k))
    BY <2>1, <2>3, FS_Subset
  <2>5. Cardinality(before(k)) = Offset(b, k) BY DEF Offset
  <2> QED BY <1>8, <2>4, <2>5
<1>12. s[x] \in P /\ s[y] \in P /\ x \in 1 .. n /\ y \in 1 .. n BY <1>3
<1>13. ~Precedes(key(s[y]), key(s[x]))
  <2> SUFFICES ASSUME Precedes(key(s[y]), key(s[x])) PROVE FALSE OBVIOUS
  <2>1. key(s[x]) \in GroupKeys(b) /\ key(s[y]) \in GroupKeys(b) BY <1>7, <1>12
  <2>2. Offset(b, key(s[y])) + Cardinality(Group(b, key(s[y]))) <= Offset(b, key(s[x]))
    BY <1>11, <2>1
  <2>3. x > Offset(b, key(s[x])) BY <1>10, <1>12
  <2>4. y <= Offset(b, key(s[y])) + Cardinality(Group(b, key(s[y]))) BY <1>10, <1>12
  <2>5. /\ Offset(b, key(s[x])) \in Nat /\ Offset(b, key(s[y])) \in Nat
        /\ Cardinality(Group(b, key(s[y]))) \in Nat
    BY <1>8, <2>1
  <2> HIDE DEF key
  <2> QED BY <1>1, <1>12, <2>2, <2>3, <2>4, <2>5
<1> HIDE DEF key
<1>14. /\ BucketOf[s[x]] \in {1, 2} /\ BucketOf[s[y]] \in {1, 2}
       /\ ApnapRank(b, ControllerOf[s[x]]) \in Nat
       /\ ApnapRank(b, ControllerOf[s[y]]) \in Nat
       /\ ~(\/ BucketOf[s[y]] < BucketOf[s[x]]
            \/ /\ BucketOf[s[y]] = BucketOf[s[x]]
               /\ ApnapRank(b, ControllerOf[s[y]]) < ApnapRank(b, ControllerOf[s[x]]))
  BY <1>7, <1>12, <1>13 DEF Precedes
<1> QED BY <1>14 DEF Below

(* Beside the placement, an ability begins to wait, an object is put on the stack, or
   the top leaves it. *)
SameQueue == bundle'.pending = bundle.pending
SameStack == bundle'.stack = bundle.stack
OneWaits == \E o \in Objects : /\ o \notin Items(bundle.pending)
                               /\ bundle'.pending = Append(bundle.pending, o)
OneIsPut == \E o \in Objects : bundle'.stack = Append(bundle.stack, o)
TopLeaves == bundle'.stack = SubSeq(bundle.stack, 1, Len(bundle.stack) - 1)

LEMMA ObjectsMove ==
  ASSUME Inv, [Next]_vars, ~PlaceTriggers
  PROVE  /\ SameQueue \/ OneWaits
         /\ SameStack \/ OneIsPut \/ TopLeaves
<1>1. bundle \in Bundles BY Reading
<1>2. CASE \E p \in Players : Pass(p)
  BY <1>1, <1>2 DEF Pass, Passed, Bundles, SameQueue, SameStack
<1>3. CASE Resolve
  BY <1>1, <1>3 DEF Resolve, Resolved, Becomes, Bundles, SameQueue, TopLeaves
<1>4. ASSUME NEW p \in Players, ResolveDrawing(p) PROVE SameQueue /\ TopLeaves
  BY <1>1, <1>4 DEF ResolveDrawing, Resolved, Happens, Bundles, SameQueue, TopLeaves
<1>5. ASSUME NEW p \in Players, ResolveDamaging(p) PROVE SameQueue /\ TopLeaves
  BY <1>1, <1>5 DEF ResolveDamaging, Resolved, Happens, Bundles, SameQueue, TopLeaves
<1>6. CASE SbaIsStable \/ SbaApplied
  BY <1>1, <1>6
  DEF SbaIsStable, SbaApplied, SbaRecorded, Becomes, Happens, Bundles, SameQueue, SameStack
<1>7. CASE Checkpoint
  BY <1>1, <1>7 DEF Checkpoint, Checkpointed, Becomes, Bundles, SameQueue, SameStack
<1>8. CASE (\E to \in Positions : AdvancePosition(to)) \/ RepeatDamageStep
  <2>1. \A to : /\ Advanced(bundle, to).pending = bundle.pending
                /\ Advanced(bundle, to).stack = bundle.stack
    BY <1>1 DEF Advanced, Bundles
  <2>2. \E to : bundle' = Advanced(bundle, to)
    BY <1>8 DEF AdvancePosition, RepeatDamageStep, Becomes, Happens
  <2> QED BY <2>1, <2>2 DEF SameQueue, SameStack
<1>9. CASE SkipFirstDraw
  BY <1>1, <1>9 DEF SkipFirstDraw, DrawSkipped, Becomes, Bundles, SameQueue, SameStack
<1>10. CASE Discard \/ FinishDiscard
  <2>1. \A f : /\ [bundle EXCEPT !.hand = f].pending = bundle.pending
               /\ [bundle EXCEPT !.hand = f].stack = bundle.stack
    BY <1>1 DEF Bundles
  <2>2. CASE Discard BY <2>1, <2>2 DEF Discard, Becomes, SameQueue, SameStack
  <2>3. CASE FinishDiscard
    <3>1. \A w : /\ [bundle EXCEPT !.window = w].pending = bundle.pending
                 /\ [bundle EXCEPT !.window = w].stack = bundle.stack
      BY <1>1 DEF Bundles
    <3> QED BY <2>3, <3>1 DEF FinishDiscard, DiscardFinished, Becomes, SameQueue, SameStack
  <2> QED BY <1>10, <2>2, <2>3
<1>11. CASE ApplyStateActions \/ RepeatCleanup
  <2>1. CASE ApplyStateActions
    <3> DEFINE c == [bundle EXCEPT !.damaged = FALSE]
    <3>1. c \in Bundles /\ c.pending = bundle.pending /\ c.stack = bundle.stack
      BY <1>1 DEF Bundles
    <3>2. bundle' = StateActionsApplied(c) BY <2>1 DEF ApplyStateActions, Becomes
    <3> HIDE DEF c
    <3>3. /\ StateActionsApplied(c).pending = c.pending
          /\ StateActionsApplied(c).stack = c.stack
      BY <3>1 DEF StateActionsApplied, Bundles
    <3> QED BY <3>1, <3>2, <3>3 DEF SameQueue, SameStack
  <2>2. CASE RepeatCleanup
    <3>1. \A w : /\ [bundle EXCEPT !.window = w].pending = bundle.pending
                 /\ [bundle EXCEPT !.window = w].stack = bundle.stack
      BY <1>1 DEF Bundles
    <3> QED BY <2>2, <3>1 DEF RepeatCleanup, CleanupRepeated, Becomes, SameQueue, SameStack
  <2> QED BY <1>11, <2>1, <2>2
<1>12. CASE StartTurn
  BY <1>1, <1>12 DEF StartTurn, TurnStarted, Becomes, Bundles, SameQueue, SameStack
<1>13. ASSUME NEW p \in Players, NEW o \in Objects \ Abilities, Cast(p, o)
       PROVE  SameQueue /\ OneIsPut
  BY <1>1, <1>13 DEF Cast, Resumed, Committed, Happens, Bundles, SameQueue, OneIsPut
<1>14. ASSUME NEW o \in Abilities, AppendTrigger(o) PROVE OneWaits /\ SameStack
  BY <1>1, <1>14 DEF AppendTrigger, Appended, Happens, Bundles, OneWaits, SameStack
<1>15. CASE UNCHANGED vars BY <1>15 DEF vars, SameQueue, SameStack
<1> QED
  BY <1>2, <1>3, <1>4, <1>5, <1>6, <1>7, <1>8, <1>9, <1>10, <1>11, <1>12, <1>13, <1>14,
     <1>15 DEF Next, Progress, Environment

(* An ability waits once. *)
WaitsOnce ==
  \A i, j \in DOMAIN bundle.pending : bundle.pending[i] = bundle.pending[j] => i = j

LEMMA WaitsOnceStep == Inv /\ WaitsOnce /\ [Next]_vars => WaitsOnce'
<1> SUFFICES ASSUME Inv, WaitsOnce, [Next]_vars PROVE WaitsOnce' OBVIOUS
<1>1. bundle \in Bundles /\ bundle.pending \in Seq(Objects) BY Reading, BundleFields
<1>2. CASE PlaceTriggers
  <2>1. PICK s \in Placements(bundle.pending) : Becomes(Placed(bundle, s))
    BY <1>2 DEF PlaceTriggers
  <2>2. bundle'.pending = <<>> BY <1>1, <2>1 DEF Becomes, Placed, Bundles
  <2> QED BY <2>2 DEF WaitsOnce
<1>3. CASE SameQueue BY <1>3 DEF WaitsOnce, SameQueue
<1>4. CASE OneWaits
  <2>1. PICK o \in Objects : /\ o \notin Items(bundle.pending)
                             /\ bundle'.pending = Append(bundle.pending, o)
    BY <1>4 DEF OneWaits
  <2> DEFINE q == bundle.pending
             r == bundle'.pending
             n == Len(q)
  <2>2. /\ n \in Nat /\ DOMAIN q = 1 .. n /\ DOMAIN r = 1 .. n + 1 /\ r[n + 1] = o
        /\ \A i \in 1 .. n : r[i] = q[i]
    BY <1>1, <2>1
  <2>3. \A i \in 1 .. n : q[i] # o BY <2>1, <2>2 DEF Items
  <2>4. \A i, j \in 1 .. n : q[i] = q[j] => i = j BY <2>2 DEF WaitsOnce
  <2> HIDE DEF q, r, n
  <2>5. \A i, j \in 1 .. n + 1 : r[i] = r[j] => i = j
    <3>1. \A i \in 1 .. n + 1 : i \in 1 .. n \/ i = n + 1 BY <2>2
    <3> QED BY <2>2, <2>3, <2>4, <3>1
  <2> QED BY <2>2, <2>5 DEF WaitsOnce, r
<1> QED BY <1>2, <1>3, <1>4, ObjectsMove

LEMMA Orderly == Spec => [](Inv /\ WaitsOnce)
<1>1. Init => WaitsOnce BY DEF Init, WaitsOnce
<1> QED BY <1>1, InitInv, NextInv, WaitsOnceStep, PTL DEF Spec

(* Where nothing is placed, at most the top of the stack can have waited before. *)
LEMMA UnplacedOrder ==
  ASSUME Inv, [Next]_vars, ~PlaceTriggers,
         NEW i \in DOMAIN bundle'.stack, NEW j \in DOMAIN bundle'.stack, i < j
  PROVE  bundle'.stack[i] \notin Items(bundle.pending)
<1>1. /\ bundle.stack \in Seq(Objects)
      /\ Items(bundle.pending) \cap Items(bundle.stack) = {}
  BY Reading, BundleFields DEF NoTriggerIsOnTheStack
<1> DEFINE k == bundle.stack
           n == Len(k)
<1>2. n \in Nat /\ DOMAIN k = 1 .. n BY <1>1
<1>3. i \in 1 .. n /\ bundle'.stack[i] = k[i]
  <2>1. CASE SameStack BY <1>2, <2>1 DEF SameStack
  <2>2. CASE TopLeaves
    <3> DEFINE t == SubSeq(k, 1, n - 1)
    <3>1. CASE n = 0
      <4>1. t = <<>> BY <1>1, <3>1
      <4> QED BY <2>2, <4>1 DEF TopLeaves
    <3>2. CASE n > 0
      <4>1. 1 \in 1 .. n + 1 /\ n - 1 \in 0 .. n BY <1>2, <3>2
      <4>2. /\ t \in Seq(Objects) /\ Len(t) = n - 1
            /\ \A m \in 1 .. n - 1 : t[m] = k[m]
        BY <1>1, <1>2, <3>2, <4>1
      <4>3. DOMAIN t = 1 .. n - 1 BY <4>2
      <4>4. bundle'.stack = t BY <2>2 DEF TopLeaves
      <4> HIDE DEF t
      <4>5. 1 .. n - 1 \subseteq 1 .. n BY <1>2
      <4> QED BY <4>2, <4>3, <4>4, <4>5
    <3> QED BY <1>2, <3>1, <3>2
  <2>3. CASE OneIsPut
    <3>1. PICK o \in Objects : bundle'.stack = Append(k, o) BY <2>3 DEF OneIsPut
    <3>2. /\ DOMAIN Append(k, o) = 1 .. n + 1
          /\ \A m \in 1 .. n : Append(k, o)[m] = k[m]
      BY <1>1, <1>2
    <3> HIDE DEF k, n
    <3> QED BY <1>2, <3>1, <3>2
  <2> QED BY <2>1, <2>2, <2>3, ObjectsMove
<1>4. k[i] \in Items(k) BY <1>2, <1>3 DEF Items
<1> QED BY <1>1, <1>3, <1>4

LEMMA PlacedOrder ==
  ASSUME Inv, WaitsOnce, PlaceTriggers,
         NEW i \in DOMAIN bundle'.stack, NEW j \in DOMAIN bundle'.stack, i < j,
         bundle'.stack[i] \in Items(bundle.pending)
  PROVE  Below(bundle, bundle'.stack[i], bundle'.stack[j])
<1>1. /\ bundle \in Bundles /\ bundle.active \in Seated(bundle)
      /\ bundle.stack \in Seq(Objects) /\ bundle.pending \in Seq(Objects)
      /\ Items(bundle.pending) \cap Items(bundle.stack) = {}
  BY Reading, BundleFields DEF NoTriggerIsOnTheStack
<1>2. PICK s \in Placements(bundle.pending) :
        ValidPlacement(bundle, s) /\ Becomes(Placed(bundle, s))
  BY DEF PlaceTriggers
<1> DEFINE k == bundle.stack
           n == Len(k)
           t == k \o s
<1>3. bundle'.stack = t BY <1>1, <1>2 DEF Becomes, Placed, Bundles
<1>4. s \in Seq(Objects) BY <1>1, PlacedObjects
<1>5. /\ n \in Nat /\ DOMAIN k = 1 .. n /\ Len(s) \in Nat /\ DOMAIN s = 1 .. Len(s)
      /\ DOMAIN t = 1 .. n + Len(s)
      /\ \A m \in 1 .. n : t[m] = k[m]
      /\ \A m \in 1 .. Len(s) : t[n + m] = s[m]
  BY <1>1, <1>4
<1>6. \A m \in 1 .. n : k[m] \in Items(k) BY <1>5 DEF Items
<1>7. i \notin 1 .. n BY <1>1, <1>3, <1>5, <1>6
<1> HIDE DEF k, n, t
<1>8. /\ i - n \in 1 .. Len(s) /\ j - n \in 1 .. Len(s) /\ i - n < j - n
      /\ n + (i - n) = i /\ n + (j - n) = j
  <2>1. i \in 1 .. n + Len(s) /\ j \in 1 .. n + Len(s) BY <1>3, <1>5
  <2>2. n \in Nat /\ Len(s) \in Nat /\ i > n BY <1>5, <1>7, <2>1
  <2> DEFINE l == Len(s)
  <2> HIDE DEF l
  <2>3. ASSUME NEW x \in 1 .. n + l, NEW y \in 1 .. n + l, n \in Nat, l \in Nat, x > n,
               x < y
        PROVE  /\ x - n \in 1 .. l /\ y - n \in 1 .. l /\ x - n < y - n
               /\ n + (x - n) = x /\ n + (y - n) = y
    BY <2>3
  <2> QED BY <2>1, <2>2, <2>3 DEF l
<1>9. bundle'.stack[i] = s[i - n] /\ bundle'.stack[j] = s[j - n]
  BY <1>3, <1>5, <1>8
<1>10. Below(bundle, s[i - n], s[j - n])
  BY <1>1, <1>2, <1>5, <1>8, PlacedInOrder DEF WaitsOnce
<1> QED BY <1>9, <1>10

(* Of two abilities that are put on the stack together the one of the active player,
   or of who comes first after it, is below, and the second bucket above the first
   (validateGroupedPlacementOrder, triggerApnapV1): the intervals a placement is
   checked by are those of the groups, at a table of any size. *)
THEOREM TriggersStackInOrder == Spec => StacksInApnapOrder
<1>1. ASSUME Inv, WaitsOnce, [Next]_vars
      PROVE  \A i, j \in DOMAIN bundle'.stack :
               (/\ i < j /\ {bundle'.stack[i], bundle'.stack[j]}
                              \subseteq Items(bundle.pending))
                 => Below(bundle, bundle'.stack[i], bundle'.stack[j])
  <2> SUFFICES ASSUME NEW i \in DOMAIN bundle'.stack, NEW j \in DOMAIN bundle'.stack,
                      i < j, bundle'.stack[i] \in Items(bundle.pending)
               PROVE  Below(bundle, bundle'.stack[i], bundle'.stack[j])
    OBVIOUS
  <2> QED BY <1>1, UnplacedOrder, PlacedOrder
<1> QED BY <1>1, Orderly, PTL DEF Spec, StacksInApnapOrder

HIDE TurnEngineAssumption

-----------------------------------------------------------------------------
(* CoreCommands *)

USE CoreCommandsAssumption

LEMMA RootFields ==
  ASSUME NEW r \in Roots
  PROVE  /\ r.order \in Seq(Players) /\ r.active \in Players /\ r.turn \in Nat \ {0}
         /\ r.position \in Positions /\ r.window \in Windows /\ r.stack \in Seq(Objects)
         /\ r.pending = <<>> /\ r.hand \in [Players -> Nat] /\ r.mana \subseteq Players
         /\ r.library \in [Players -> Nat] /\ r.landed \subseteq Players
         /\ r.entries \in Seq(Entries) /\ r.holds \subseteq Players
         /\ r.combat \in Combats
         /\ Seated(r) \subseteq Players /\ Items(r.stack) \subseteq Objects
         /\ Items(r.entries) \subseteq Entries
<1>1. r.order \in Seq(Players) /\ r.stack \in Seq(Objects) /\ r.entries \in Seq(Entries)
  BY DEF Roots
<1>2. /\ Seated(r) \subseteq Players /\ Items(r.stack) \subseteq Objects
      /\ Items(r.entries) \subseteq Entries
  BY <1>1 DEF Seated, Items
<1> QED BY <1>1, <1>2 DEF Roots

LEMMA CombatFields ==
  ASSUME NEW c \in Combats
  PROVE  /\ c.step \in {"none", "declare-attackers", "declare-blockers"}
         /\ c.defenders \subseteq Players /\ c.attacks \subseteq Attacks
         /\ c.blocks \subseteq Blocks
BY DEF Combats

(* The windows the commands lead to: no trigger waits, a turn-based action is
   the active player's and nothing is on the stack, and every check of
   state-based actions grants priority. *)
WindowOfCommands(r) ==
  /\ r.window.kind # "trigger-order-required"
  /\ r.window.kind = "turn-based-action-required"
       => r.window.player = r.active /\ Empty(r.stack)
  /\ r.window.kind = "sba-check-required" => r.window.grant

(* What is on the stack, and what is noted about it, belongs to somebody who
   plays. *)
StackBelongs(r) ==
  /\ \A o \in Items(r.stack) : ControllerOf[o] \in Seated(r)
  /\ \A e \in Items(r.entries) :
       e.source # NoSource => ControllerOf[e.source] = e.author

(* Whoever has passed in the cycle has passed with every object of the stack
   before him. *)
PassesAreHeard ==
  root.window.kind = "priority" =>
    \A o \in Items(root.stack) : Items(root.window.passed) \subseteq heard[o]

CombatOf(r) ==
  LET c == r.combat IN
  /\ r.position \notin CombatPositions \ {"beginning-of-combat"} => c = NoCombat
  /\ r.position \in {"declare-blockers", "combat-damage"}
       => c.step = "declare-blockers"
  /\ c.step # "none" => c.defenders = Seated(r) \ {r.active}
  /\ \A a \in c.attacks :
       a.defender \in c.defenders /\ OwnerOf[a.attacker] \in Seated(r)
  /\ \A b \in c.blocks :
       /\ [attacker |-> b.attacker, defender |-> b.defender] \in c.attacks
       /\ OwnerOf[b.blocker] \in Seated(r)

RootInv ==
  /\ RootTypeOK /\ IsTable(root) /\ ValidRoot(root)
  /\ WindowOfCommands(root) /\ StackBelongs(root) /\ CombatOf(root)
  /\ PassesAreHeard /\ EveryoneMayAnswer

(* A root that asks nobody to answer anything, starts a cycle, or still is in the
   cycle it was in. *)
NothingIsUnheard(r) ==
  \/ r.window.kind \notin {"priority", "resolution-ready"}
  \/ r.window.kind = "priority" /\ r.window.passed = <<>>
  \/ /\ r.window.kind = root.window.kind
     /\ Seated(r) \subseteq Seated(root)
     /\ r.window.kind = "priority"
          => /\ Items(r.stack) \subseteq Items(root.stack)
             /\ Items(r.window.passed) \subseteq Items(root.window.passed)
     /\ r.window.kind = "resolution-ready"
          => Items(r.stack) \subseteq Items(root.stack)
             /\ r.window.object = root.window.object

LEMMA BecomesStep ==
  ASSUME RootInv, NEW r \in Roots, RootBecomes(r), IsTable(r), WindowOfCommands(r),
         StackBelongs(r), CombatOf(r), NothingIsUnheard(r)
  PROVE  RootInv'
<1>1. /\ root' = r /\ ValidRoot(r)
      /\ heard' = [o \in Objects |-> IF o \in Items(root.stack) \cap Items(r.stack)
                                     THEN heard[o] ELSE {}]
  BY DEF RootBecomes
<1>2. heard \in [Objects -> SUBSET Players] BY DEF RootInv, RootTypeOK
<1>3. heard' \in [Objects -> SUBSET Players] BY <1>1, <1>2
<1>4. RootTypeOK' BY <1>1, <1>3 DEF RootTypeOK
<1>5. Items(r.stack) \subseteq Objects BY RootFields
<1>6. \A o \in Items(r.stack) : o \in Items(root.stack) => heard'[o] = heard[o]
  BY <1>1, <1>5
<1>7. ASSUME r.window.kind = "priority", NEW o \in Items(r.stack)
      PROVE  Items(r.window.passed) \subseteq heard'[o]
  <2>1. CASE r.window.passed = <<>> BY <2>1 DEF Items
  <2>2. CASE r.window.passed # <<>>
    <3>1. /\ root.window.kind = "priority" /\ o \in Items(root.stack)
          /\ Items(r.window.passed) \subseteq Items(root.window.passed)
      BY <1>7, <2>2 DEF NothingIsUnheard
    <3>2. Items(root.window.passed) \subseteq heard[o]
      BY <3>1 DEF RootInv, PassesAreHeard
    <3> QED BY <1>6, <3>1, <3>2
  <2> QED BY <2>1, <2>2
<1>8. ASSUME r.window.kind = "resolution-ready"
      PROVE  Seated(r) \subseteq heard'[r.window.object]
  <2>1. /\ root.window.kind = "resolution-ready" /\ Seated(r) \subseteq Seated(root)
        /\ Items(r.stack) \subseteq Items(root.stack)
        /\ r.window.object = root.window.object
    BY <1>8 DEF NothingIsUnheard
  <2>2. r.window.object \in Items(r.stack)
    <3>1. r.stack # <<>> /\ r.stack[Len(r.stack)] = r.window.object
      BY <1>1, <1>8 DEF ValidRoot, ValidBundle, ResolvesTheTop, Empty, Top
    <3>2. r.stack \in Seq(Objects) BY RootFields
    <3>3. Len(r.stack) \in DOMAIN r.stack BY <3>1, <3>2
    <3> QED BY <3>1, <3>3 DEF Items
  <2>3. Seated(root) \subseteq heard[root.window.object]
    BY <2>1 DEF RootInv, EveryoneMayAnswer
  <2> QED BY <1>6, <2>1, <2>2, <2>3
<1>9. IsTable(root)' /\ ValidRoot(root)' /\ WindowOfCommands(root)' /\ StackBelongs(root)'
      /\ CombatOf(root)'
  <2>1. IsTable(root)' BY <1>1 DEF IsTable
  <2>2. ValidRoot(root)' BY <1>1
  <2> QED BY <1>1, <2>1, <2>2
<1>10. PassesAreHeard' BY <1>1, <1>7 DEF PassesAreHeard
<1>11. EveryoneMayAnswer' BY <1>1, <1>8 DEF EveryoneMayAnswer
<1> QED BY <1>4, <1>9, <1>10, <1>11 DEF RootInv

(* One card more or less. *)
LEMMA OneCard ==
  ASSUME NEW h \in [Players -> Nat], NEW p \in Players
  PROVE  /\ [h EXCEPT ![p] = @ + 1] \in [Players -> Nat]
         /\ h[p] > 0 => [h EXCEPT ![p] = @ - 1] \in [Players -> Nat]
<1>1. h[p] \in Nat OBVIOUS
<1>2. h[p] + 1 \in Nat /\ (h[p] > 0 => h[p] - 1 \in Nat) BY <1>1
<1> QED BY <1>2

(* A command that leaves the turn, the windows, the stack, its entries and combat
   as they are. *)
LEMMA QuietStep ==
  ASSUME RootInv, NEW r \in Roots, RootBecomes(r), r.order = root.order,
         r.active = root.active, r.position = root.position, r.window = root.window,
         r.stack = root.stack, r.entries = root.entries, r.combat = root.combat
  PROVE  RootInv'
<1>1. Seated(r) = Seated(root) BY DEF Seated
<1>2. IsTable(r) BY DEF RootInv, IsTable
<1>3. WindowOfCommands(r) BY DEF RootInv, WindowOfCommands
<1>4. StackBelongs(r) BY <1>1 DEF RootInv, StackBelongs
<1>5. CombatOf(r) BY <1>1 DEF RootInv, CombatOf
<1>6. NothingIsUnheard(r)
  <2>1. r.window.kind = root.window.kind /\ Seated(r) \subseteq Seated(root)
        /\ Items(r.stack) \subseteq Items(root.stack)
        /\ r.window.passed = root.window.passed /\ r.window.object = root.window.object
    BY <1>1
  <2> QED BY <2>1 DEF NothingIsUnheard
<1> QED BY <1>2, <1>3, <1>4, <1>5, <1>6, BecomesStep

LEMMA SetHoldStep == ASSUME RootInv, NEW p \in Players, SetHold(p) PROVE RootInv'
<1> DEFINE r == [root EXCEPT !.holds = @ \union {p}]
<1>1. root \in Roots BY DEF RootInv, RootTypeOK
<1>2. /\ r \in Roots /\ r.order = root.order /\ r.active = root.active
      /\ r.position = root.position /\ r.window = root.window
      /\ r.stack = root.stack /\ r.entries = root.entries /\ r.combat = root.combat
  BY <1>1 DEF Roots
<1>3. RootBecomes(r) BY DEF SetHold
<1> HIDE DEF r
<1> QED BY <1>2, <1>3, QuietStep

LEMMA ReleaseHoldStep ==
  ASSUME RootInv, NEW p \in Players, ReleaseHold(p) PROVE RootInv'
<1> DEFINE r == [root EXCEPT !.holds = @ \ {p}]
<1>1. root \in Roots BY DEF RootInv, RootTypeOK
<1>2. /\ r \in Roots /\ r.order = root.order /\ r.active = root.active
      /\ r.position = root.position /\ r.window = root.window
      /\ r.stack = root.stack /\ r.entries = root.entries /\ r.combat = root.combat
  BY <1>1 DEF Roots
<1>3. RootBecomes(r) BY DEF ReleaseHold, HoldReleased
<1> HIDE DEF r
<1> QED BY <1>2, <1>3, QuietStep

LEMMA PlayLandStep == ASSUME RootInv, NEW p \in Players, PlayLand(p) PROVE RootInv'
<1> DEFINE h == [root.hand EXCEPT ![p] = @ - 1]
           r == [root EXCEPT !.hand = h, !.landed = @ \union {p}]
<1>1. root \in Roots /\ root.hand[p] > 0 BY DEF RootInv, RootTypeOK, PlayLand
<1>2. root.hand \in [Players -> Nat] BY <1>1, RootFields
<1>3. h \in [Players -> Nat] BY <1>1, <1>2, OneCard
<1>4. RootBecomes(r) BY DEF PlayLand
<1> HIDE DEF h
<1>5. /\ r \in Roots /\ r.order = root.order /\ r.active = root.active
      /\ r.position = root.position /\ r.window = root.window
      /\ r.stack = root.stack /\ r.entries = root.entries /\ r.combat = root.combat
  BY <1>1, <1>3 DEF Roots
<1> HIDE DEF r
<1> QED BY <1>4, <1>5, QuietStep

LEMMA DrawStep == ASSUME RootInv, NEW p \in Players, Draw(p) PROVE RootInv'
<1> DEFINE l == [root.library EXCEPT ![p] = @ - 1]
           h == [root.hand EXCEPT ![p] = @ + 1]
           r == [root EXCEPT !.library = l, !.hand = h]
<1>1. root \in Roots /\ root.library[p] > 0 BY DEF RootInv, RootTypeOK, Draw
<1>2. root.hand \in [Players -> Nat] /\ root.library \in [Players -> Nat]
  BY <1>1, RootFields
<1>3. h \in [Players -> Nat] /\ l \in [Players -> Nat] BY <1>1, <1>2, OneCard
<1>4. RootBecomes(r) BY DEF Draw
<1> HIDE DEF h, l
<1>5. /\ r \in Roots /\ r.order = root.order /\ r.active = root.active
      /\ r.position = root.position /\ r.window = root.window
      /\ r.stack = root.stack /\ r.entries = root.entries /\ r.combat = root.combat
  BY <1>1, <1>3 DEF Roots
<1> HIDE DEF r
<1> QED BY <1>4, <1>5, QuietStep

LEMMA PutBackStep == ASSUME RootInv, NEW p \in Players, PutBack(p) PROVE RootInv'
<1> DEFINE h == [root.hand EXCEPT ![p] = @ - 1]
           l == [root.library EXCEPT ![p] = @ + 1]
           r == [root EXCEPT !.hand = h, !.library = l]
<1>1. root \in Roots /\ root.hand[p] > 0 BY DEF RootInv, RootTypeOK, PutBack
<1>2. root.hand \in [Players -> Nat] /\ root.library \in [Players -> Nat]
  BY <1>1, RootFields
<1>3. h \in [Players -> Nat] /\ l \in [Players -> Nat] BY <1>1, <1>2, OneCard
<1>4. RootBecomes(r) BY DEF PutBack
<1> HIDE DEF h, l
<1>5. /\ r \in Roots /\ r.order = root.order /\ r.active = root.active
      /\ r.position = root.position /\ r.window = root.window
      /\ r.stack = root.stack /\ r.entries = root.entries /\ r.combat = root.combat
  BY <1>1, <1>3 DEF Roots
<1> HIDE DEF r
<1> QED BY <1>4, <1>5, QuietStep

(* A spell taken back: the cycle goes on over what is left of the stack. *)
LEMMA TakeBackStep ==
  ASSUME RootInv, NEW p \in Players, NEW o \in Objects, TakeBack(p, o) PROVE RootInv'
<1> DEFINE s == Without(root.stack, o)
           h == [root.hand EXCEPT ![p] = @ + 1]
           r == [root EXCEPT !.stack = s, !.hand = h]
<1>1. root \in Roots /\ RootBecomes(r) BY DEF RootInv, RootTypeOK, TakeBack
<1>2. root.hand \in [Players -> Nat] /\ root.stack \in Seq(Objects) BY <1>1, RootFields
<1>3. /\ s \in Seq(Objects) /\ Items(s) \subseteq Items(root.stack)
      /\ h \in [Players -> Nat]
  <2>1. s \in Seq(Objects) /\ Items(s) = Items(root.stack) \ {o} BY <1>2, WithoutItems
  <2>2. h \in [Players -> Nat] BY <1>2, OneCard
  <2> QED BY <2>1, <2>2
<1> HIDE DEF s, h
<1>4. /\ r \in Roots /\ r.order = root.order /\ r.active = root.active
      /\ r.position = root.position /\ r.window = root.window
      /\ r.stack = s /\ r.entries = root.entries /\ r.combat = root.combat
  BY <1>1, <1>2, <1>3 DEF Roots
<1> HIDE DEF r
<1>5. Seated(r) = Seated(root) BY <1>4 DEF Seated
<1>6. IsTable(r) BY <1>4 DEF RootInv, IsTable
<1>7. WindowOfCommands(r)
  <2>1. Empty(root.stack) => Empty(s)
    <3>1. ASSUME Empty(root.stack), s # <<>> PROVE FALSE
      <4>1. Items(root.stack) = {} BY <3>1 DEF Empty, Items
      <4>2. 1 \in DOMAIN s BY <1>3, <3>1
      <4>3. s[1] \in Items(s) BY <4>2 DEF Items
      <4> QED BY <1>3, <4>1, <4>3
    <3> QED BY <3>1 DEF Empty
  <2> QED BY <1>4, <2>1 DEF RootInv, WindowOfCommands
<1>8. StackBelongs(r) BY <1>3, <1>4, <1>5 DEF RootInv, StackBelongs
<1>9. CombatOf(r) BY <1>4, <1>5 DEF RootInv, CombatOf
<1>10. NothingIsUnheard(r)
  <2>1. r.window.kind = root.window.kind /\ Seated(r) \subseteq Seated(root)
        /\ Items(r.stack) \subseteq Items(root.stack)
        /\ r.window.passed = root.window.passed /\ r.window.object = root.window.object
    BY <1>3, <1>4, <1>5
  <2> QED BY <2>1 DEF NothingIsUnheard
<1> QED BY <1>1, <1>4, <1>6, <1>7, <1>8, <1>9, <1>10, BecomesStep

LEMMA AddStackEntryStep ==
  ASSUME RootInv, NEW p \in Players, NEW source \in Objects \union {NoSource},
         AddStackEntry(p, source)
  PROVE  RootInv'
<1> DEFINE e  == [source |-> source, author |-> p]
           es == Append(root.entries, e)
           r  == [root EXCEPT !.entries = es]
<1>1. /\ root \in Roots /\ RootBecomes(r)
      /\ source # NoSource => ControllerOf[source] = p
  BY DEF RootInv, RootTypeOK, AddStackEntry
<1>2. root.entries \in Seq(Entries) /\ e \in Entries BY <1>1, RootFields DEF Entries
<1>3. es \in Seq(Entries) /\ Items(es) = Items(root.entries) \union {e}
  BY <1>2, OneMoreItem
<1>4. e.source = source /\ e.author = p OBVIOUS
<1> HIDE DEF es, e
<1>5. /\ r \in Roots /\ r.order = root.order /\ r.active = root.active
      /\ r.position = root.position /\ r.window = root.window
      /\ r.stack = root.stack /\ r.entries = es /\ r.combat = root.combat
  BY <1>1, <1>3 DEF Roots
<1> HIDE DEF r
<1>6. Seated(r) = Seated(root) BY <1>5 DEF Seated
<1>7. IsTable(r) BY <1>5 DEF RootInv, IsTable
<1>8. WindowOfCommands(r) BY <1>5 DEF RootInv, WindowOfCommands
<1>9. StackBelongs(r) BY <1>1, <1>3, <1>4, <1>5, <1>6 DEF RootInv, StackBelongs
<1>10. CombatOf(r) BY <1>5, <1>6 DEF RootInv, CombatOf
<1>11. NothingIsUnheard(r)
  <2>1. r.window.kind = root.window.kind /\ Seated(r) \subseteq Seated(root)
        /\ Items(r.stack) \subseteq Items(root.stack)
        /\ r.window.passed = root.window.passed /\ r.window.object = root.window.object
    BY <1>5, <1>6
  <2> QED BY <2>1 DEF NothingIsUnheard
<1> QED BY <1>1, <1>5, <1>7, <1>8, <1>9, <1>10, <1>11, BecomesStep

(* A command about combat. *)
LEMMA CombatStep ==
  ASSUME RootInv, NEW c \in Combats, RootBecomes([root EXCEPT !.combat = c]),
         CombatOf([root EXCEPT !.combat = c])
  PROVE  RootInv'
<1> DEFINE r == [root EXCEPT !.combat = c]
<1>1. root \in Roots BY DEF RootInv, RootTypeOK
<1>2. /\ r \in Roots /\ r.order = root.order /\ r.active = root.active
      /\ r.window = root.window /\ r.stack = root.stack /\ r.entries = root.entries
  BY <1>1 DEF Roots
<1>3. RootBecomes(r) /\ CombatOf(r) OBVIOUS
<1> HIDE DEF r
<1>4. Seated(r) = Seated(root) BY <1>2 DEF Seated
<1>5. IsTable(r) BY <1>2 DEF RootInv, IsTable
<1>6. WindowOfCommands(r) BY <1>2 DEF RootInv, WindowOfCommands
<1>7. StackBelongs(r) BY <1>2, <1>4 DEF RootInv, StackBelongs
<1>8. NothingIsUnheard(r)
  <2>1. r.window.kind = root.window.kind /\ Seated(r) \subseteq Seated(root)
        /\ Items(r.stack) \subseteq Items(root.stack)
        /\ r.window.passed = root.window.passed /\ r.window.object = root.window.object
    BY <1>2, <1>4
  <2> QED BY <2>1 DEF NothingIsUnheard
<1> QED BY <1>2, <1>3, <1>5, <1>6, <1>7, <1>8, BecomesStep

(* What combat is allowed to be while it is being declared. *)
LEMMA CombatGoesOn ==
  ASSUME RootInv, NEW c \in Combats, root.combat.step # "none", c.step # "none",
         c.step = "declare-blockers" \/ c.step = root.combat.step,
         c.defenders = root.combat.defenders,
         \A a \in c.attacks : a.defender \in c.defenders
                              /\ OwnerOf[a.attacker] \in Seated(root),
         \A b \in c.blocks :
            /\ [attacker |-> b.attacker, defender |-> b.defender] \in c.attacks
            /\ OwnerOf[b.blocker] \in Seated(root)
  PROVE  CombatOf([root EXCEPT !.combat = c])
<1> DEFINE r == [root EXCEPT !.combat = c]
<1>1. root \in Roots /\ CombatOf(root) BY DEF RootInv, RootTypeOK
<1>2. /\ r.order = root.order /\ r.active = root.active /\ r.combat = c
      /\ r.position = root.position
  BY <1>1 DEF Roots
<1> HIDE DEF r
<1>3. Seated(r) = Seated(root) BY <1>2 DEF Seated
<1>4. root.combat # NoCombat BY DEF NoCombat
<1>5. CombatOf(r) BY <1>1, <1>2, <1>3, <1>4 DEF CombatOf
<1> QED BY <1>5 DEF r

LEMMA SetCombatStepStep ==
  ASSUME RootInv, NEW p \in Players, SetCombatStep(p) PROVE RootInv'
<1> DEFINE c == [root.combat EXCEPT !.step = "declare-blockers"]
<1>1. /\ root \in Roots /\ root.combat.step = "declare-attackers"
      /\ RootBecomes([root EXCEPT !.combat = c])
  BY DEF RootInv, RootTypeOK, SetCombatStep
<1>2. root.combat \in Combats /\ CombatOf(root) BY <1>1, RootFields DEF RootInv
<1>3. /\ c \in Combats /\ c.step = "declare-blockers"
      /\ c.defenders = root.combat.defenders /\ c.attacks = root.combat.attacks
      /\ c.blocks = root.combat.blocks
  BY <1>2 DEF Combats
<1> HIDE DEF c
<1>4. CombatOf([root EXCEPT !.combat = c])
  <2>1. /\ \A a \in c.attacks : a.defender \in c.defenders
                              /\ OwnerOf[a.attacker] \in Seated(root)
        /\ \A b \in c.blocks :
            /\ [attacker |-> b.attacker, defender |-> b.defender] \in c.attacks
            /\ OwnerOf[b.blocker] \in Seated(root)
    BY <1>2, <1>3 DEF CombatOf
  <2> QED BY <1>1, <1>3, <2>1, CombatGoesOn
<1> QED BY <1>1, <1>3, <1>4, CombatStep

LEMMA DeclareAttackStep ==
  ASSUME RootInv, NEW p \in Players, NEW a \in Attacks, DeclareAttack(p, a)
  PROVE  RootInv'
<1> DEFINE c == [root.combat EXCEPT !.attacks = @ \union {a}]
<1>1. /\ root \in Roots /\ root.combat.step = "declare-attackers"
      /\ a.defender \in root.combat.defenders
      /\ RootBecomes([root EXCEPT !.combat = c])
  BY DEF RootInv, RootTypeOK, DeclareAttack
<1>2. root.combat \in Combats /\ CombatOf(root) BY <1>1, RootFields DEF RootInv
<1>3. /\ c \in Combats /\ c.step = root.combat.step
      /\ c.defenders = root.combat.defenders
      /\ c.attacks = root.combat.attacks \union {a} /\ c.blocks = root.combat.blocks
  BY <1>2 DEF Combats
<1>4. OwnerOf[a.attacker] \in Seated(root)
  <2> DEFINE r == [root EXCEPT !.combat = c]
  <2>1. r.combat = c /\ r.order = root.order BY <1>1 DEF Roots
  <2>2. ValidRoot(r) BY <1>1 DEF RootBecomes
  <2> HIDE DEF r
  <2>3. Seated(r) = Seated(root) BY <2>1 DEF Seated
  <2> QED BY <1>3, <2>1, <2>2, <2>3 DEF ValidRoot
<1> HIDE DEF c
<1>5. CombatOf([root EXCEPT !.combat = c])
  <2>1. /\ \A b \in c.attacks : b.defender \in c.defenders
                              /\ OwnerOf[b.attacker] \in Seated(root)
        /\ \A b \in c.blocks :
            /\ [attacker |-> b.attacker, defender |-> b.defender] \in c.attacks
            /\ OwnerOf[b.blocker] \in Seated(root)
    BY <1>1, <1>2, <1>3, <1>4 DEF CombatOf
  <2> QED BY <1>1, <1>3, <2>1, CombatGoesOn
<1> QED BY <1>1, <1>3, <1>5, CombatStep

LEMMA DeclareBlockStep ==
  ASSUME RootInv, NEW p \in Players, NEW k \in Blocks, DeclareBlock(p, k)
  PROVE  RootInv'
<1> DEFINE c == [root.combat EXCEPT !.blocks = @ \union {k}]
<1>1. /\ root \in Roots /\ root.combat.step = "declare-blockers"
      /\ [attacker |-> k.attacker, defender |-> k.defender] \in root.combat.attacks
      /\ RootBecomes([root EXCEPT !.combat = c])
  BY DEF RootInv, RootTypeOK, DeclareBlock
<1>2. root.combat \in Combats /\ CombatOf(root) BY <1>1, RootFields DEF RootInv
<1>3. /\ c \in Combats /\ c.step = root.combat.step
      /\ c.defenders = root.combat.defenders
      /\ c.blocks = root.combat.blocks \union {k} /\ c.attacks = root.combat.attacks
  BY <1>2 DEF Combats
<1>4. OwnerOf[k.blocker] \in Seated(root)
  <2> DEFINE r == [root EXCEPT !.combat = c]
  <2>1. r.combat = c /\ r.order = root.order BY <1>1 DEF Roots
  <2>2. ValidRoot(r) BY <1>1 DEF RootBecomes
  <2> HIDE DEF r
  <2>3. Seated(r) = Seated(root) BY <2>1 DEF Seated
  <2> QED BY <1>3, <2>1, <2>2, <2>3 DEF ValidRoot
<1> HIDE DEF c
<1>5. CombatOf([root EXCEPT !.combat = c])
  <2>1. /\ \A b \in c.attacks : b.defender \in c.defenders
                              /\ OwnerOf[b.attacker] \in Seated(root)
        /\ \A b \in c.blocks :
            /\ [attacker |-> b.attacker, defender |-> b.defender] \in c.attacks
            /\ OwnerOf[b.blocker] \in Seated(root)
    BY <1>1, <1>2, <1>3, <1>4 DEF CombatOf
  <2> QED BY <1>1, <1>3, <2>1, CombatGoesOn
<1> QED BY <1>1, <1>3, <1>5, CombatStep

-----------------------------------------------------------------------------
(* Priority, the stack and its entries *)

(* A command that leaves the turn and combat as they are. *)
LEMMA StackStep ==
  ASSUME RootInv, NEW r \in Roots, RootBecomes(r), r.order = root.order,
         r.active = root.active, r.position = root.position, r.combat = root.combat,
         WindowOfCommands(r), StackBelongs(r), NothingIsUnheard(r)
  PROVE  RootInv'
<1>1. Seated(r) = Seated(root) BY DEF Seated
<1>2. IsTable(r) BY DEF RootInv, IsTable
<1>3. CombatOf(r) BY <1>1 DEF RootInv, CombatOf
<1> QED BY <1>2, <1>3, BecomesStep

LEMMA CastSpellStep ==
  ASSUME RootInv, NEW p \in Players, NEW o \in Objects, NEW fast \in BOOLEAN,
         CastSpell(p, o, fast)
  PROVE  RootInv'
<1> DEFINE s == Append(root.stack, o)
           w == Priority(p, p, <<>>)
           h == [root.hand EXCEPT ![p] = @ - 1]
           r == [root EXCEPT !.stack = s, !.hand = h, !.window = w]
<1>1. /\ root \in Roots /\ RootBecomes(r) /\ root.hand[p] > 0
      /\ ControllerOf[o] = p /\ p \in Seated(root)
  BY DEF RootInv, RootTypeOK, CastSpell, Committed, Playing
<1>2. root.stack \in Seq(Objects) /\ root.hand \in [Players -> Nat] BY <1>1, RootFields
<1>3. s \in Seq(Objects) /\ Items(s) = Items(root.stack) \union {o}
  BY SMTT(30), <1>2, OneMoreItem
<1>4. h \in [Players -> Nat] BY <1>1, <1>2, OneCard
<1>5. w \in Windows /\ w.kind = "priority" /\ w.passed = <<>>
  <2>1. <<>> \in Seq(Players) OBVIOUS
  <2> QED BY <2>1, WindowTypes DEF Priority
<1> HIDE DEF s, w, h
<1>6. /\ r \in Roots /\ r.order = root.order /\ r.active = root.active
      /\ r.position = root.position /\ r.window = w
      /\ r.stack = s /\ r.entries = root.entries /\ r.combat = root.combat
  BY <1>1, <1>3, <1>4, <1>5 DEF Roots
<1> HIDE DEF r
<1>7. WindowOfCommands(r) BY <1>5, <1>6 DEF WindowOfCommands
<1>8. StackBelongs(r)
  <2>1. Seated(r) = Seated(root) BY <1>6 DEF Seated
  <2> QED BY <1>1, <1>3, <1>6, <2>1 DEF RootInv, StackBelongs
<1>9. NothingIsUnheard(r) BY <1>5, <1>6 DEF NothingIsUnheard
<1> QED BY <1>1, <1>6, <1>7, <1>8, <1>9, StackStep

LEMMA RecordSbaStep ==
  ASSUME RootInv, NEW p \in Players, NEW applied \in BOOLEAN, RecordSba(p, applied)
  PROVE  RootInv'
<1> DEFINE w == IF applied THEN SbaCheck(p, TRUE) ELSE Priority(p, p, <<>>)
           r == [root EXCEPT !.window = w]
<1>1. /\ root \in Roots /\ root.window.kind = "sba-check-required"
      /\ root.window.player = p /\ RootBecomes(SbaRecorded(root, applied))
  BY DEF RootInv, RootTypeOK, RecordSba, MayRecordSba
<1>2. root.pending = <<>> /\ root.window \in Windows BY <1>1, RootFields
<1>3. root.window.grant = TRUE
  <2>1. root.window.grant \in BOOLEAN BY <1>1, <1>2, WindowFields
  <2> QED BY <1>1, <2>1 DEF RootInv, WindowOfCommands
<1>4. SbaRecorded(root, applied) = r
  <2>1. (root.window.grant \/ root.position = "cleanup") = TRUE BY <1>3
  <2> QED BY <1>1, <1>2, <1>3, <2>1 DEF SbaRecorded, Empty
<1>5. w \in Windows
  <2>1. <<>> \in Seq(Players) OBVIOUS
  <2> QED BY <2>1, WindowTypes
<1>6. /\ w.kind \in {"sba-check-required", "priority"}
      /\ w.kind = "priority" => w.passed = <<>>
      /\ w.kind = "sba-check-required" => w.grant
  BY DEF SbaCheck, Priority
<1> HIDE DEF w
<1>7. /\ r \in Roots /\ r.order = root.order /\ r.active = root.active
      /\ r.position = root.position /\ r.window = w
      /\ r.stack = root.stack /\ r.entries = root.entries /\ r.combat = root.combat
  BY <1>1, <1>5 DEF Roots
<1> HIDE DEF r
<1>8. WindowOfCommands(r) BY <1>6, <1>7 DEF WindowOfCommands
<1>9. StackBelongs(r)
  <2>1. Seated(r) = Seated(root) BY <1>7 DEF Seated
  <2> QED BY <1>7, <2>1 DEF RootInv, StackBelongs
<1>10. NothingIsUnheard(r) BY <1>6, <1>7 DEF NothingIsUnheard
<1> QED BY <1>1, <1>4, <1>7, <1>8, <1>9, <1>10, StackStep

(* The top resolves, whatever became of the entries. *)
LEMMA ResolvedStep ==
  ASSUME RootInv, root.window.kind = "resolution-ready", NEW es \in Seq(Entries),
         Items(es) \subseteq Items(root.entries),
         RootBecomes(Resolved([root EXCEPT !.entries = es]))
  PROVE  RootInv'
<1> DEFINE s == SubSeq(root.stack, 1, Len(root.stack) - 1)
           w == SbaCheck(root.active, TRUE)
           r == [root EXCEPT !.entries = es, !.stack = s, !.window = w]
<1>1. root \in Roots /\ ValidRoot(root) BY DEF RootInv, RootTypeOK
<1>2. root.stack \in Seq(Objects) /\ root.active \in Players BY <1>1, RootFields
<1>3. root.stack # <<>> BY <1>1 DEF ValidRoot, ValidBundle, ResolvesTheTop, Empty
<1>4. Resolved([root EXCEPT !.entries = es]) = r BY <1>1 DEF Resolved, Roots
<1>5. s \in Seq(Objects) /\ Items(s) \subseteq Items(root.stack)
  BY <1>2, <1>3, BelowTheTop
<1>6. w \in Windows /\ w.kind = "sba-check-required" /\ w.grant
  BY <1>2, WindowTypes DEF SbaCheck
<1> HIDE DEF s, w
<1>7. /\ r \in Roots /\ r.order = root.order /\ r.active = root.active
      /\ r.position = root.position /\ r.window = w
      /\ r.stack = s /\ r.entries = es /\ r.combat = root.combat
  BY <1>1, <1>5, <1>6 DEF Roots
<1> HIDE DEF r
<1>8. WindowOfCommands(r) BY <1>6, <1>7 DEF WindowOfCommands
<1>9. StackBelongs(r)
  <2>1. Seated(r) = Seated(root) BY <1>7 DEF Seated
  <2> QED BY <1>5, <1>7, <2>1 DEF RootInv, StackBelongs
<1>10. NothingIsUnheard(r) BY <1>6, <1>7 DEF NothingIsUnheard
<1> QED BY <1>4, <1>7, <1>8, <1>9, <1>10, StackStep

LEMMA ResolveTopStep == ASSUME RootInv, NEW p \in Players, ResolveTop(p) PROVE RootInv'
<1>1. /\ root \in Roots /\ root.window.kind = "resolution-ready"
      /\ RootBecomes(Resolved(root))
  BY DEF RootInv, RootTypeOK, ResolveTop, MayResolveTop
<1>2. root.entries \in Seq(Entries) BY <1>1, RootFields
<1>3. [root EXCEPT !.entries = root.entries] = root BY <1>1 DEF Roots
<1> QED BY <1>1, <1>2, <1>3, ResolvedStep

LEMMA ResolveManualStep ==
  ASSUME RootInv, NEW p \in Players, ResolveManual(p) PROVE RootInv'
<1> DEFINE es == SubSeq(root.entries, 1, Len(root.entries) - 1)
           r  == [root EXCEPT !.entries = es]
<1>1. root \in Roots /\ root.entries # <<>>
  BY DEF RootInv, RootTypeOK, ResolveManual, MayResolveManual, Empty
<1>2. root.entries \in Seq(Entries) BY <1>1, RootFields
<1>3. es \in Seq(Entries) /\ Items(es) \subseteq Items(root.entries)
  BY <1>1, <1>2, BelowTheTop
<1>4. CASE Top(root.entries).source # NoSource
  <2>1. root.window.kind = "resolution-ready" /\ RootBecomes(Resolved(r))
    BY <1>4 DEF ResolveManual, MayResolveManual, ManuallyResolved
  <2> HIDE DEF es
  <2> QED BY <1>3, <2>1, ResolvedStep
<1>5. CASE Top(root.entries).source = NoSource
  <2>1. RootBecomes(r) BY <1>5 DEF ResolveManual, ManuallyResolved
  <2> HIDE DEF es
  <2>2. /\ r \in Roots /\ r.order = root.order /\ r.active = root.active
        /\ r.position = root.position /\ r.window = root.window
        /\ r.stack = root.stack /\ r.entries = es /\ r.combat = root.combat
    BY <1>1, <1>3 DEF Roots
  <2> HIDE DEF r
  <2>3. Seated(r) = Seated(root) BY <2>2 DEF Seated
  <2>4. WindowOfCommands(r) BY <2>2 DEF RootInv, WindowOfCommands
  <2>5. StackBelongs(r) BY <1>3, <2>2, <2>3 DEF RootInv, StackBelongs
  <2>6. NothingIsUnheard(r)
    <3>1. r.window.kind = root.window.kind /\ Seated(r) \subseteq Seated(root)
          /\ Items(r.stack) \subseteq Items(root.stack)
          /\ r.window.passed = root.window.passed
          /\ r.window.object = root.window.object
      BY <2>2, <2>3
    <3> QED BY <3>1 DEF NothingIsUnheard
  <2> QED BY <2>1, <2>2, <2>4, <2>5, <2>6, StackStep
<1> QED BY <1>4, <1>5


-----------------------------------------------------------------------------
(* Passing priority *)

(* Whatever waits, no trigger is on the stack: none is pending. *)
LEMMA NothingIsPending ==
  ASSUME NEW r \in Roots PROVE r.pending = <<>> /\ NoTriggerIsOnTheStack(r)
<1>1. r.pending = <<>> BY RootFields
<1>2. Items(r.pending) = {} BY <1>1 DEF Items
<1> QED BY <1>1, <1>2 DEF NoTriggerIsOnTheStack

(* Another window over the same root. *)
LEMMA AnotherWindow ==
  ASSUME NEW r \in Roots, NEW w \in Windows
  PROVE  LET s == [r EXCEPT !.window = w] IN
         /\ s \in Roots /\ s.window = w /\ s.order = r.order /\ s.active = r.active
         /\ s.position = r.position /\ s.stack = r.stack /\ s.entries = r.entries
         /\ s.combat = r.combat /\ s.holds = r.holds /\ s.pending = r.pending
BY DEF Roots

LEMMA ValidAsBefore ==
  ASSUME NEW r \in Roots, NEW s \in Roots, ValidRoot(r), ValidBundle(s),
         s.order = r.order, s.active = r.active, s.stack = r.stack,
         s.entries = r.entries, s.combat = r.combat, s.holds \subseteq r.holds
  PROVE  ValidRoot(s)
<1>1. Seated(s) = Seated(r) BY DEF Seated
<1> QED BY <1>1 DEF ValidRoot

LEMMA TopIsThere ==
  ASSUME NEW T, NEW s \in Seq(T), s # <<>> PROVE Top(s) \in T /\ Top(s) \in Items(s)
<1>1. Len(s) \in DOMAIN s /\ s[Len(s)] \in T OBVIOUS
<1> QED BY <1>1 DEF Top, Items

(* What a pass makes of the root: the cycle goes on, the top is about to resolve
   once everybody has passed, or the step is over. *)
LEMMA PassedRoot ==
  ASSUME RootInv, root.window.kind = "priority"
  PROVE  LET r  == Passed(root)
             ps == Items(root.window.passed) \union {root.window.player} IN
         /\ r \in Roots /\ r.order = root.order /\ r.active = root.active
         /\ r.position = root.position /\ r.stack = root.stack
         /\ r.entries = root.entries /\ r.combat = root.combat
         /\ ValidRoot(r)
         /\ \/ r.window.kind = "priority" /\ Items(r.window.passed) = ps
            \/ /\ r.window.kind = "resolution-ready"
               /\ root.stack # <<>> /\ r.window.object = Top(root.stack)
               /\ ps = Seated(root)
            \/ r.window.kind \in {"cleanup-repeat-ready", "position-advance-ready"}
<1> DEFINE v  == root.window
           ps == Append(v.passed, v.player)
<1>1. /\ root \in Roots /\ IsTable(root) /\ ValidRoot(root) /\ v \in Windows
      /\ v.kind = "priority" /\ root.stack \in Seq(Objects)
  BY RootFields DEF RootInv, RootTypeOK
<1>2. ValidBundle(root) BY <1>1 DEF ValidRoot
<1>3. /\ v.start \in Seated(root) /\ v.player \in Seated(root)
      /\ ps \in Seq(Players) /\ Len(ps) \in 1 .. Len(root.order)
      /\ DOMAIN ps = 1 .. Len(ps)
      /\ \A i \in 1 .. Len(ps) : ps[i] = Ahead(root, v.start, i - 1)
      /\ Ahead(root, v.player, 1) = Ahead(root, v.start, Len(ps))
      /\ Items(ps) = Items(v.passed) \union {v.player}
  BY <1>1, <1>2, PassAgain
<1>4. root.position # "untap"
  BY <1>1, <1>2 DEF ValidBundle, WindowFitsPosition
<1>5. Seated(root) \subseteq Players BY <1>1, RootFields
<1>6. Passed(root) =
        [root EXCEPT !.window =
           IF Len(ps) = Len(root.order) THEN AfterEveryonePassed(root)
           ELSE Priority(v.start, Ahead(root, v.player, 1), ps)]
  BY DEF Passed
<1> HIDE DEF ps, v
<1>7. CASE Len(ps) # Len(root.order)
  <2> DEFINE w == Priority(v.start, Ahead(root, v.player, 1), ps)
             r == [root EXCEPT !.window = w]
  <2>1. Passed(root) = r BY <1>6, <1>7
  <2>2. Ahead(root, v.player, 1) \in Seated(root) BY <1>1, <1>3, AheadIsSeated
  <2>3. w \in Windows BY <1>3, <1>5, <2>2, WindowTypes
  <2>4. /\ w.kind = "priority" /\ w.start = v.start
        /\ w.player = Ahead(root, v.player, 1) /\ w.passed = ps
    BY DEF Priority
  <2> HIDE DEF w
  <2>5. /\ r \in Roots /\ r.window = w /\ r.order = root.order
        /\ r.active = root.active /\ r.position = root.position
        /\ r.stack = root.stack /\ r.entries = root.entries
        /\ r.combat = root.combat /\ r.holds = root.holds
    BY <1>1, <2>3, AnotherWindow
  <2> HIDE DEF r
  <2>6. r.pending = <<>> /\ NoTriggerIsOnTheStack(r) BY <2>5, NothingIsPending
  <2>7. \A q, k : Ahead(r, q, k) = Ahead(root, q, k) BY <2>5 DEF Ahead, Seat
  <2>8. PassesAreContiguous(r)
    <3>1. Len(ps) < Len(r.order) BY <1>1, <1>3, <1>7, <2>5 DEF IsTable
    <3>2. \A i \in DOMAIN ps : ps[i] = Ahead(r, v.start, i - 1) BY <1>3, <2>7
    <3>3. w.player = Ahead(r, v.start, Len(ps)) BY <1>3, <2>4, <2>7
    <3> QED BY <2>4, <2>5, <3>1, <3>2, <3>3 DEF PassesAreContiguous
  <2>9. ValidBundle(r)
    BY <1>3, <1>4, <2>2, <2>4, <2>5, <2>6, <2>8 DEF ValidBundle,
       WindowFitsPosition, WindowPlayersAreSeated, TriggersAreSettled,
       StackIsSettled, ResolvesTheTop, CleanupKinds, SettledKinds, BoundaryKinds,
       PlayerKinds, Empty, Seated
  <2>10. ValidRoot(r) BY <1>1, <2>5, <2>9, ValidAsBefore
  <2> QED BY <1>3, <2>1, <2>4, <2>5, <2>10 DEF v
<1>8. CASE Len(ps) = Len(root.order)
  <2> DEFINE w == AfterEveryonePassed(root)
             r == [root EXCEPT !.window = w]
  <2>1. Passed(root) = r BY <1>6, <1>8
  <2>2. Items(ps) = Seated(root) BY <1>1, <1>3, <1>8, EverybodyPassed
  <2>3. /\ w \in Windows
        /\ \/ /\ root.stack # <<>> /\ w.kind = "resolution-ready"
              /\ w.object = Top(root.stack)
           \/ /\ root.stack = <<>> /\ root.position = "cleanup"
              /\ w.kind = "cleanup-repeat-ready"
           \/ /\ root.stack = <<>> /\ root.position # "cleanup"
              /\ w.kind = "position-advance-ready"
    <3>1. CASE root.stack # <<>>
      <4>1. Top(root.stack) \in Objects BY <1>1, <3>1, TopIsThere
      <4> QED BY <3>1, <4>1, ReadyTypes DEF AfterEveryonePassed, ResolutionReady, Empty
    <3>2. CASE root.stack = <<>>
      BY <3>2, ReadyTypes DEF AfterEveryonePassed, RepeatReady, PositionReady, Empty
    <3> QED BY <3>1, <3>2
  <2> HIDE DEF w
  <2>4. /\ r \in Roots /\ r.window = w /\ r.order = root.order
        /\ r.active = root.active /\ r.position = root.position
        /\ r.stack = root.stack /\ r.entries = root.entries
        /\ r.combat = root.combat /\ r.holds = root.holds
    BY <1>1, <2>3, AnotherWindow
  <2> HIDE DEF r
  <2>5. r.pending = <<>> /\ NoTriggerIsOnTheStack(r) BY <2>4, NothingIsPending
  <2>6. ValidBundle(r)
    BY <1>4, <2>3, <2>4, <2>5 DEF ValidBundle, WindowFitsPosition,
       WindowPlayersAreSeated, PassesAreContiguous, TriggersAreSettled,
       StackIsSettled, ResolvesTheTop, CleanupKinds, SettledKinds, BoundaryKinds,
       PlayerKinds, Empty
  <2>7. ValidRoot(r) BY <1>1, <2>4, <2>6, ValidAsBefore
  <2> QED BY <1>3, <2>1, <2>2, <2>3, <2>4, <2>7 DEF v
<1> QED BY <1>7, <1>8

LEMMA PassPriorityStep ==
  ASSUME RootInv, NEW p \in Players, PassPriority(p) PROVE RootInv'
<1> DEFINE r  == Passed(root)
           ps == Items(root.window.passed) \union {root.window.player}
<1>1. /\ root \in Roots /\ heard \in [Objects -> SUBSET Players]
      /\ root.window.kind = "priority" /\ root.window.player = p
      /\ root' = r
      /\ heard' = [o \in Objects |-> IF o \in Items(root.stack)
                                     THEN heard[o] \union {p} ELSE heard[o]]
  BY DEF RootInv, RootTypeOK, PassPriority, MayPassPriority, HasPriority, MayPass
<1>2. /\ r \in Roots /\ r.order = root.order /\ r.active = root.active
      /\ r.position = root.position /\ r.stack = root.stack
      /\ r.entries = root.entries /\ r.combat = root.combat
      /\ ValidRoot(r)
      /\ \/ r.window.kind = "priority" /\ Items(r.window.passed) = ps
         \/ /\ r.window.kind = "resolution-ready"
            /\ root.stack # <<>> /\ r.window.object = Top(root.stack)
            /\ ps = Seated(root)
         \/ r.window.kind \in {"cleanup-repeat-ready", "position-advance-ready"}
  BY <1>1, PassedRoot
<1>3. root.stack \in Seq(Objects) /\ Items(root.stack) \subseteq Objects
  BY <1>1, RootFields
<1>4. \A o \in Items(root.stack) : heard'[o] = heard[o] \union {p} BY <1>1, <1>3
<1>5. heard' \in [Objects -> SUBSET Players] BY <1>1
<1>6. \A o \in Items(root.stack) : ps \subseteq heard'[o]
  BY <1>1, <1>4 DEF RootInv, PassesAreHeard
<1> HIDE DEF r, ps
<1>7. RootTypeOK' BY <1>1, <1>2, <1>5 DEF RootTypeOK
<1>8. Seated(r) = Seated(root) BY <1>2 DEF Seated
<1>9. IsTable(r) /\ WindowOfCommands(r) /\ StackBelongs(r) /\ CombatOf(r)
  <2>1. IsTable(r) BY <1>2 DEF RootInv, IsTable
  <2>2. WindowOfCommands(r) BY <1>2 DEF WindowOfCommands
  <2>3. StackBelongs(r) BY <1>2, <1>8 DEF RootInv, StackBelongs
  <2>4. CombatOf(r) BY <1>2, <1>8 DEF RootInv, CombatOf
  <2> QED BY <2>1, <2>2, <2>3, <2>4
<1>10. /\ IsTable(root)' /\ ValidRoot(root)' /\ WindowOfCommands(root)'
       /\ StackBelongs(root)' /\ CombatOf(root)'
  <2>1. IsTable(root)' BY <1>1, <1>9 DEF IsTable
  <2> QED BY <1>1, <1>2, <1>9, <2>1
<1>11. PassesAreHeard'
  BY <1>1, <1>2, <1>6 DEF PassesAreHeard
<1>12. EveryoneMayAnswer'
  <2>1. ASSUME root'.window.kind = "resolution-ready"
        PROVE  Seated(root') \subseteq heard'[root'.window.object]
    <3>1. ps = Seated(root) /\ root.stack # <<>> /\ r.window.object = Top(root.stack)
      BY <1>1, <1>2, <2>1
    <3>2. Top(root.stack) \in Items(root.stack) BY <1>3, <3>1, TopIsThere
    <3> QED BY <1>1, <1>6, <1>8, <3>1, <3>2
  <2> QED BY <2>1 DEF EveryoneMayAnswer
<1> QED BY <1>7, <1>10, <1>11, <1>12 DEF RootInv

-----------------------------------------------------------------------------
(* The turn goes on *)

(* The positions a turn operation leads to. *)
GoesTo(from, to) ==
  \/ from = "untap" /\ to = "upkeep"
  \/ from = to /\ to \in {"draw", "precombat-main"}
  \/ from = "upkeep" /\ to = "precombat-main"
  \/ <<from, to>> \in AllowedTransitions /\ to = NextPosition(from)
  \/ to = "untap"

(* What a turn operation makes of the root: nothing is on the stack, the active
   player is asked to act, and nothing else has changed hands. *)
TurnWentOn(n) ==
  /\ n \in Roots /\ n.order = root.order /\ n.stack = root.stack
  /\ n.entries = root.entries /\ n.combat = root.combat /\ n.holds = root.holds
  /\ root.stack = <<>>
  /\ n.active \in Seated(root) /\ (n.active = root.active \/ n.position = "untap")
  /\ GoesTo(root.position, n.position)
  /\ n.window.kind \in Asking /\ n.window.player = n.active
  /\ n.position = "untap" => n.window.kind = "turn-based-action-required"
  /\ n.window.kind = "turn-based-action-required"
       => n.position \in {"untap", "draw", "precombat-main"}
  /\ n.window.kind \in {"cleanup-discard-required", "cleanup-state-actions-required"}
       => n.position = "cleanup"
  /\ n.window.kind = "sba-check-required" => n.window.grant

LEMMA AskingKinds ==
  ASSUME NEW p
  PROVE  /\ TurnAction(p).kind = "turn-based-action-required"
         /\ TurnAction(p).player = p
         /\ SbaCheck(p, TRUE).kind = "sba-check-required"
         /\ SbaCheck(p, TRUE).player = p /\ SbaCheck(p, TRUE).grant = TRUE
         /\ Discarding(p).kind = "cleanup-discard-required" /\ Discarding(p).player = p
         /\ StateActions(p).kind = "cleanup-state-actions-required"
         /\ StateActions(p).player = p
BY DEF TurnAction, SbaCheck, Discarding, StateActions

LEMMA OneTurnOperation ==
  ASSUME root \in Roots
  PROVE  /\ MayCheckpoint(root)
              => Progressed(root) = Checkpointed(StepDrawn(root))
         /\ MaySkipDraw(root) => Progressed(root) = DrawSkipped(root)
         /\ root.window.kind = "position-advance-ready" /\ ~MaySkipDraw(root)
              => Progressed(root) = Advanced(root, NextPosition(root.position))
         /\ MayStartTurn(root)
              => Progressed(root) = [TurnStarted(root) EXCEPT !.landed = {}]
<1>1. CASE root.window.kind = "turn-based-action-required"
  BY <1>1 DEF Progressed, MayCheckpoint, MaySkipDraw, MayStartTurn
<1>2. CASE root.window.kind = "position-advance-ready"
  BY <1>2 DEF Progressed, MayCheckpoint, MaySkipDraw, MayStartTurn
<1>3. CASE root.window.kind = "turn-advance-ready"
  BY <1>3 DEF Progressed, MayCheckpoint, MaySkipDraw, MayStartTurn
<1> QED BY <1>1, <1>2, <1>3 DEF MayCheckpoint, MaySkipDraw, MayStartTurn

LEMMA CheckpointGoesOn ==
  ASSUME RootInv, MayCheckpoint(root),
         root.position = "draw" => root.library[root.active] > 0
  PROVE  TurnWentOn(Checkpointed(StepDrawn(root)))
<1> DEFINE a == root.active
           w == SbaCheck(a, TRUE)
           l == IF root.position = "draw" THEN [root.library EXCEPT ![a] = @ - 1]
                ELSE root.library
           h == IF root.position = "draw" THEN [root.hand EXCEPT ![a] = @ + 1]
                ELSE root.hand
           m == IF root.position = "untap" THEN {} ELSE root.mana
           q == IF root.position = "untap" THEN "upkeep" ELSE root.position
           n == [root EXCEPT !.library = l, !.hand = h, !.window = w, !.mana = m,
                             !.position = q]
<1>1. /\ root \in Roots /\ ValidRoot(root) /\ a \in Players
      /\ root.hand \in [Players -> Nat] /\ root.library \in [Players -> Nat]
      /\ root.mana \subseteq Players /\ root.position \in Positions
  BY RootFields DEF RootInv, RootTypeOK
<1>2. /\ root.window.kind = "turn-based-action-required" /\ root.stack = <<>>
      /\ root.position \in {"untap", "draw", "precombat-main"}
      /\ a \in Seated(root)
  BY <1>1 DEF MayCheckpoint, ValidRoot, ValidBundle, WindowFitsPosition, Empty
<1>3. l \in [Players -> Nat] /\ h \in [Players -> Nat] BY <1>1, OneCard
<1>4. w \in Windows BY <1>1, WindowTypes
<1>5. /\ w.kind = "sba-check-required" /\ w.player = a /\ w.grant = TRUE
  BY AskingKinds
<1>6. m \subseteq Players BY <1>1
<1>7. q \in Positions BY <1>1 DEF Positions
<1>8. Checkpointed(StepDrawn(root)) = n
  <2>1. CASE root.position = "untap"
    BY <1>1, <2>1 DEF Checkpointed, StepDrawn, Roots
  <2>2. CASE root.position = "draw"
    BY <1>1, <2>2 DEF Checkpointed, StepDrawn, Roots
  <2>3. CASE root.position \notin {"untap", "draw"}
    BY <1>1, <2>3 DEF Checkpointed, StepDrawn, Roots
  <2> QED BY <2>1, <2>2, <2>3
<1>9. GoesTo(root.position, q) /\ q # "untap" /\ (q # "upkeep" => q = root.position)
  BY <1>2 DEF GoesTo
<1> HIDE DEF w, l, h, m, q
<1>10. /\ n \in Roots /\ n.order = root.order /\ n.stack = root.stack
       /\ n.entries = root.entries /\ n.combat = root.combat /\ n.holds = root.holds
       /\ n.active = a /\ n.position = q /\ n.window = w
  BY <1>1, <1>3, <1>4, <1>6, <1>7 DEF Roots
<1> HIDE DEF n
<1>11. TurnWentOn(n)
  BY <1>2, <1>5, <1>9, <1>10 DEF TurnWentOn, Asking
<1> QED BY <1>8, <1>11

(* The window a step begins with. *)
LEMMA StepBegins ==
  ASSUME root \in Roots, NEW to \in Positions \ {"untap"}
  PROVE  LET w == WindowForPosition(root, to) IN
         /\ w \in Windows /\ w.kind \in Asking /\ w.player = root.active
         /\ w.kind = "turn-based-action-required" => to \in {"draw", "precombat-main"}
         /\ w.kind \in {"cleanup-discard-required", "cleanup-state-actions-required"}
              => to = "cleanup"
         /\ w.kind = "sba-check-required" => w.grant
<1>1. root.active \in Players BY RootFields
<1>2. /\ TurnAction(root.active) \in Windows /\ Discarding(root.active) \in Windows
      /\ StateActions(root.active) \in Windows /\ SbaCheck(root.active, TRUE) \in Windows
  BY <1>1, WindowTypes
<1>3. WindowForPosition(root, to) \in
        IF to = "cleanup" THEN {Discarding(root.active), StateActions(root.active)}
        ELSE IF to \in {"draw", "precombat-main"} THEN {TurnAction(root.active)}
        ELSE {SbaCheck(root.active, TRUE)}
  BY DEF WindowForPosition, CleanupWindow
<1> DEFINE w == WindowForPosition(root, to)
<1> HIDE DEF w
<1>4. CASE to = "cleanup"
  <2>1. w = Discarding(root.active) \/ w = StateActions(root.active)
    BY <1>3, <1>4 DEF w
  <2>2. /\ w \in Windows /\ w.player = root.active
        /\ w.kind \in {"cleanup-discard-required", "cleanup-state-actions-required"}
    <3>1. CASE w = Discarding(root.active)
      <4>1. w.kind = "cleanup-discard-required" /\ w.player = root.active
        BY <3>1, AskingKinds
      <4> QED BY <1>2, <3>1, <4>1
    <3>2. CASE w = StateActions(root.active)
      <4>1. w.kind = "cleanup-state-actions-required" /\ w.player = root.active
        BY <3>2, AskingKinds
      <4> QED BY <1>2, <3>2, <4>1
    <3> QED BY <2>1, <3>1, <3>2
  <2> QED BY <1>4, <2>2 DEF Asking, w
<1>5. CASE to \in {"draw", "precombat-main"}
  <2>1. w = TurnAction(root.active) BY <1>3, <1>5 DEF w
  <2>2. /\ w \in Windows /\ w.kind = "turn-based-action-required"
        /\ w.player = root.active
    BY <1>2, <2>1, AskingKinds
  <2> QED BY <1>5, <2>2 DEF Asking, w
<1>6. CASE to \notin {"cleanup", "draw", "precombat-main"}
  <2>1. w = SbaCheck(root.active, TRUE) BY <1>3, <1>6 DEF w
  <2>2. w \in Windows /\ w.kind = "sba-check-required" /\ w.player = root.active
        /\ w.grant = TRUE
    BY <1>2, <2>1, AskingKinds
  <2> QED BY <2>2 DEF Asking, w
<1> QED BY <1>4, <1>5, <1>6

LEMMA StepGoesOn ==
  ASSUME RootInv, NEW to \in Positions \ {"untap"}, NEW ms \in SUBSET Players,
         root.stack = <<>>, GoesTo(root.position, to)
  PROVE  TurnWentOn([root EXCEPT !.position = to, !.mana = ms,
                                 !.window = WindowForPosition(root, to)])
<1> DEFINE w == WindowForPosition(root, to)
           n == [root EXCEPT !.position = to, !.mana = ms, !.window = w]
<1>1. root \in Roots /\ root.active \in Seated(root)
  BY DEF RootInv, RootTypeOK, ValidRoot
<1>2. /\ w \in Windows /\ w.kind \in Asking /\ w.player = root.active
      /\ w.kind = "turn-based-action-required" => to \in {"draw", "precombat-main"}
      /\ w.kind \in {"cleanup-discard-required", "cleanup-state-actions-required"}
           => to = "cleanup"
      /\ w.kind = "sba-check-required" => w.grant
  BY <1>1, StepBegins
<1> HIDE DEF w
<1>3. /\ n \in Roots /\ n.order = root.order /\ n.stack = root.stack
      /\ n.entries = root.entries /\ n.combat = root.combat /\ n.holds = root.holds
      /\ n.active = root.active /\ n.position = to /\ n.window = w
  BY <1>1, <1>2 DEF Roots
<1> HIDE DEF n
<1>4. TurnWentOn(n) BY <1>1, <1>2, <1>3 DEF TurnWentOn
<1> QED BY <1>4 DEF n, w

LEMMA TurnStarts ==
  ASSUME RootInv, MayStartTurn(root)
  PROVE  TurnWentOn([TurnStarted(root) EXCEPT !.landed = {}])
<1> DEFINE a == Ahead(root, root.active, 1)
           w == TurnAction(a)
           n == [root EXCEPT !.active = a, !.turn = @ + 1, !.position = "untap",
                             !.mana = {}, !.window = w, !.landed = {}]
<1>1. /\ root \in Roots /\ root.active \in Seated(root) /\ IsTable(root)
      /\ root.turn \in Nat \ {0}
  BY RootFields DEF RootInv, RootTypeOK, ValidRoot
<1>2. root.stack = <<>> BY DEF MayStartTurn, AtBoundary, Empty
<1>3. a \in Seated(root) /\ a \in Players
  <2>1. a \in Seated(root) BY <1>1, AheadIsSeated
  <2> QED BY <1>1, <2>1, RootFields
<1>4. w \in Windows /\ w.kind = "turn-based-action-required" /\ w.player = a
  BY <1>3, WindowTypes, AskingKinds
<1>5. [TurnStarted(root) EXCEPT !.landed = {}] = n BY <1>1 DEF TurnStarted, Roots
<1>6. root.turn + 1 \in Nat \ {0} BY <1>1
<1> HIDE DEF a, w
<1>7. /\ n \in Roots /\ n.order = root.order /\ n.stack = root.stack
      /\ n.entries = root.entries /\ n.combat = root.combat /\ n.holds = root.holds
      /\ n.active = a /\ n.position = "untap" /\ n.window = w
  BY ZenonT(40), <1>1, <1>3, <1>4, <1>6 DEF Roots, Positions
<1> HIDE DEF n
<1>8. TurnWentOn(n) BY <1>2, <1>3, <1>4, <1>7 DEF TurnWentOn, Asking, GoesTo
<1> QED BY <1>5, <1>8

LEMMA ProgressedRoot == ASSUME RootInv, MayProgress(root) PROVE TurnWentOn(Progressed(root))
<1>1. root \in Roots /\ root.mana \subseteq Players BY RootFields DEF RootInv, RootTypeOK
<1>2. CASE MayCheckpoint(root) /\ (root.position = "draw" => root.library[root.active] > 0)
  BY <1>1, <1>2, CheckpointGoesOn, OneTurnOperation
<1>3. CASE MaySkipDraw(root)
  <2>1. root.stack = <<>> /\ root.position = "upkeep"
    BY <1>3 DEF MaySkipDraw, AtBoundary, Empty, FirstUpkeepOfTwo
  <2>2. DrawSkipped(root) = [root EXCEPT !.position = "precombat-main", !.mana = root.mana,
                               !.window = WindowForPosition(root, "precombat-main")]
    BY <1>1 DEF DrawSkipped, Roots
  <2>3. GoesTo(root.position, "precombat-main") BY <2>1 DEF GoesTo
  <2>4. "precombat-main" \in Positions \ {"untap"} BY DEF Positions
  <2>5. TurnWentOn([root EXCEPT !.position = "precombat-main", !.mana = root.mana,
                                !.window = WindowForPosition(root, "precombat-main")])
    BY <1>1, <2>1, <2>3, <2>4, StepGoesOn
  <2> QED BY <1>1, <1>3, <2>2, <2>5, OneTurnOperation
<1>4. CASE MayAdvance(root, NextPosition(root.position)) /\ ~MaySkipDraw(root)
  <2> DEFINE to == NextPosition(root.position)
  <2>1. /\ root.stack = <<>> /\ root.window.kind = "position-advance-ready"
        /\ <<root.position, to>> \in AllowedTransitions
    BY <1>4 DEF MayAdvance, AtBoundary, Empty
  <2>2. GoesTo(root.position, to) BY <2>1 DEF GoesTo
  <2>3. to \in Positions \ {"untap"}
    <3> HIDE DEF to
    <3> QED BY <2>1 DEF AllowedTransitions, Positions
  <2>4. Advanced(root, to) = [root EXCEPT !.position = to, !.mana = {},
                                          !.window = WindowForPosition(root, to)]
    BY DEF Advanced
  <2>5. {} \in SUBSET Players OBVIOUS
  <2> HIDE DEF to
  <2>6. TurnWentOn([root EXCEPT !.position = to, !.mana = {},
                                !.window = WindowForPosition(root, to)])
    BY <2>1, <2>2, <2>3, <2>5, StepGoesOn
  <2> QED BY <1>1, <1>4, <2>1, <2>4, <2>6, OneTurnOperation DEF to
<1>5. CASE MayStartTurn(root) BY <1>1, <1>5, TurnStarts, OneTurnOperation
<1> QED BY <1>2, <1>3, <1>4, <1>5 DEF MayProgress

(* The steps of combat follow one another. *)
LEMMA CombatSteps ==
  ASSUME NEW from, NEW to, GoesTo(from, to)
  PROVE  /\ to \in {"beginning-of-combat", "declare-attackers"}
              => from \notin CombatPositions \ {"beginning-of-combat"}
         /\ to = "declare-blockers" => from = "declare-attackers"
         /\ to = "combat-damage" => from = "declare-blockers"
         /\ to = "end-of-combat" => from = "combat-damage"
<1>1. from \notin {"precombat-main", "beginning-of-combat", "declare-attackers",
                   "declare-blockers", "combat-damage"}
        => NextPosition(from) \notin CombatPositions
  BY DEF NextPosition, CombatPositions
<1>2. /\ NextPosition("precombat-main") = "beginning-of-combat"
      /\ NextPosition("beginning-of-combat") = "declare-attackers"
      /\ NextPosition("declare-attackers") = "declare-blockers"
      /\ NextPosition("declare-blockers") = "combat-damage"
      /\ NextPosition("combat-damage") = "end-of-combat"
  BY DEF NextPosition
<1> QED BY <1>1, <1>2 DEF GoesTo, CombatPositions

LEMMA CombatTypes ==
  ASSUME NEW r \in Roots, NEW step \in {"declare-attackers", "declare-blockers"}
  PROVE  /\ NoCombat \in Combats /\ NewCombat(r, step) \in Combats
         /\ NewCombat(r, step).step = step
         /\ NewCombat(r, step).defenders = Seated(r) \ {r.active}
         /\ NewCombat(r, step).attacks = {} /\ NewCombat(r, step).blocks = {}
         /\ NoCombat.step = "none" /\ NoCombat.defenders = {}
         /\ NoCombat.attacks = {} /\ NoCombat.blocks = {}
<1>1. Seated(r) \subseteq Players BY RootFields
<1> QED BY <1>1 DEF NoCombat, NewCombat, Combats

(* Combat, as the turn enters a step: what the handler refuses never comes up. *)
LEMMA CombatOfTheNextStep ==
  ASSUME RootInv, NEW n, TurnWentOn(n)
  PROVE  LET c == CombatAfter(n)
             r == [n EXCEPT !.combat = c] IN
         /\ CombatFits(n) /\ r \in Roots /\ CombatOf(r)
         /\ r.combat.defenders \subseteq Seated(r)
         /\ r.order = n.order /\ r.active = n.active /\ r.position = n.position
         /\ r.window = n.window /\ r.stack = n.stack /\ r.entries = n.entries
         /\ r.holds = n.holds /\ r.pending = n.pending
<1> DEFINE d == root.combat
           c == CombatAfter(n)
           r == [n EXCEPT !.combat = c]
<1>1. /\ root \in Roots /\ n \in Roots /\ ValidRoot(root) /\ CombatOf(root)
      /\ n.order = root.order /\ (n.active = root.active \/ n.position = "untap")
      /\ GoesTo(root.position, n.position) /\ n.position \in Positions
  BY RootFields DEF RootInv, RootTypeOK, TurnWentOn
<1>2. d \in Combats BY <1>1, RootFields
<1>3. Seated(n) = Seated(root) BY <1>1 DEF Seated
<1>4. /\ n.position \in {"beginning-of-combat", "declare-attackers"} => d = NoCombat
      /\ n.position \in {"combat-damage", "end-of-combat"}
           => d.step = "declare-blockers"
  BY <1>1, CombatSteps DEF CombatOf
<1>5. CombatFits(n)
  BY <1>4 DEF CombatFits, NoCombat
<1>6. c \in Combats /\ CombatOf(r) /\ c.defenders \subseteq Seated(n)
  <2>1. CASE n.position \notin CombatPositions \ {"beginning-of-combat"}
    <3>1. c = NoCombat
      BY <1>4, <2>1 DEF CombatAfter, CombatPositions
    <3> HIDE DEF c
    <3>2. r.combat = NoCombat /\ r.position = n.position BY <1>1, <3>1 DEF Roots
    <3>3. c \in Combats /\ c.defenders = {} BY <1>1, <3>1, CombatTypes
    <3>4. CombatOf(r)
      <4>1. r.position \notin {"declare-blockers", "combat-damage"}
        BY <2>1, <3>2 DEF CombatPositions
      <4>2. r.combat.step = "none" /\ r.combat.attacks = {} /\ r.combat.blocks = {}
        BY <1>1, <3>2, CombatTypes
      <4> QED BY <3>2, <4>1, <4>2 DEF CombatOf
    <3> QED BY <3>3, <3>4
  <2>2. CASE n.position \in CombatPositions \ {"beginning-of-combat"}
    <3>1. n.active = root.active BY <1>1, <2>2 DEF CombatPositions
    <3>2. \/ c = NewCombat(n, "declare-attackers") /\ n.position = "declare-attackers"
          \/ c = NewCombat(n, "declare-blockers") /\ n.position = "declare-blockers"
          \/ /\ c = [d EXCEPT !.step = "declare-blockers"] /\ d.step # "none"
             /\ n.position \in {"declare-blockers", "combat-damage", "end-of-combat"}
      <4>1. CASE n.position = "declare-attackers"
        <5>1. d.step = "none" BY <1>4, <4>1 DEF NoCombat
        <5> QED BY <4>1, <5>1 DEF CombatAfter, CombatPositions
      <4>2. CASE n.position = "declare-blockers"
        BY <4>2 DEF CombatAfter, CombatPositions
      <4>3. CASE n.position = "combat-damage"
        <5>1. d.step = "declare-blockers" BY <1>4, <4>3
        <5> QED BY <4>3, <5>1 DEF CombatAfter, CombatPositions
      <4>4. CASE n.position = "end-of-combat"
        <5>1. d.step = "declare-blockers" BY <1>4, <4>4
        <5>2. [d EXCEPT !.step = "declare-blockers"] = d BY <1>2, <5>1 DEF Combats
        <5>3. c = d BY <4>4 DEF CombatAfter, CombatPositions
        <5> QED BY <4>4, <5>1, <5>2, <5>3
      <4> QED BY <2>2, <4>1, <4>2, <4>3, <4>4 DEF CombatPositions
    <3>3. /\ c \in Combats /\ c.step # "none" /\ c.defenders = Seated(n) \ {n.active}
          /\ n.position \in {"declare-blockers", "combat-damage"}
               => c.step = "declare-blockers"
          /\ \A a \in c.attacks :
               a.defender \in c.defenders /\ OwnerOf[a.attacker] \in Seated(n)
          /\ \A b \in c.blocks :
               /\ [attacker |-> b.attacker, defender |-> b.defender] \in c.attacks
               /\ OwnerOf[b.blocker] \in Seated(n)
      <4>1. CASE \/ c = NewCombat(n, "declare-attackers") /\ n.position = "declare-attackers"
                 \/ c = NewCombat(n, "declare-blockers") /\ n.position = "declare-blockers"
        <5> HIDE DEF c
        <5> QED BY <1>1, <4>1, CombatTypes
      <4>2. CASE c = [d EXCEPT !.step = "declare-blockers"] /\ d.step # "none"
        <5>1. /\ c \in Combats /\ c.step = "declare-blockers"
              /\ c.defenders = d.defenders /\ c.attacks = d.attacks
              /\ c.blocks = d.blocks
          <6> HIDE DEF c
          <6> QED BY <1>2, <4>2 DEF Combats
        <5> HIDE DEF c
        <5> QED BY <1>1, <1>3, <3>1, <4>2, <5>1 DEF CombatOf
      <4> QED BY <3>2, <4>1, <4>2
    <3> HIDE DEF c
    <3>4. /\ r.combat = c /\ r.position = n.position /\ r.order = n.order
          /\ r.active = n.active
      BY <1>1 DEF Roots
    <3> HIDE DEF r
    <3>5. Seated(r) = Seated(n) BY <3>4 DEF Seated
    <3>6. CombatOf(r) BY <2>2, <3>3, <3>4, <3>5 DEF CombatOf
    <3> QED BY <3>3, <3>6
  <2> QED BY <2>1, <2>2
<1> HIDE DEF c
<1>7. /\ r \in Roots /\ r.combat = c
      /\ r.order = n.order /\ r.active = n.active /\ r.position = n.position
      /\ r.window = n.window /\ r.stack = n.stack /\ r.entries = n.entries
      /\ r.holds = n.holds /\ r.pending = n.pending
  BY <1>1, <1>6 DEF Roots
<1> HIDE DEF r
<1>8. Seated(r) = Seated(n) BY <1>7 DEF Seated
<1>9. CombatOf(r) BY <1>6 DEF r
<1> QED BY <1>5, <1>6, <1>7, <1>8, <1>9 DEF r, c

LEMMA AdvanceTableStep == ASSUME RootInv, NEW p \in Players, Advance(p) PROVE RootInv'
<1> DEFINE n == Progressed(root)
           r == [n EXCEPT !.combat = CombatAfter(n)]
<1>1. root \in Roots /\ MayProgress(root) /\ RootBecomes(r)
  BY DEF RootInv, RootTypeOK, Advance, MayAdvanceTable, TableAdvanced
<1>2. TurnWentOn(n) BY <1>1, ProgressedRoot
<1> HIDE DEF n
<1>3. /\ r \in Roots /\ CombatOf(r)
      /\ r.order = n.order /\ r.active = n.active /\ r.window = n.window
      /\ r.stack = n.stack /\ r.entries = n.entries
  BY <1>2, CombatOfTheNextStep
<1>4. /\ r.order = root.order /\ r.stack = root.stack /\ r.entries = root.entries
      /\ r.stack = <<>> /\ r.window.kind \in Asking /\ r.window.player = r.active
      /\ r.window.kind = "sba-check-required" => r.window.grant
  <2> HIDE DEF r
  <2> QED BY <1>2, <1>3 DEF TurnWentOn
<1> HIDE DEF r
<1>5. IsTable(r) BY <1>4 DEF RootInv, IsTable
<1>6. WindowOfCommands(r) BY <1>4 DEF WindowOfCommands, Asking, Empty
<1>7. StackBelongs(r)
  <2>1. Seated(r) = Seated(root) BY <1>4 DEF Seated
  <2> QED BY <1>4, <2>1 DEF RootInv, StackBelongs
<1>8. NothingIsUnheard(r) BY <1>4 DEF NothingIsUnheard, Asking
<1> QED BY <1>1, <1>3, <1>5, <1>6, <1>7, <1>8, BecomesStep

-----------------------------------------------------------------------------
(* A player leaves *)

LEMMA NoItems ==
  ASSUME NEW T, NEW s \in Seq(T), Items(s) = {} PROVE s = <<>>
<1>1. ASSUME s # <<>> PROVE FALSE
  <2>1. 1 \in DOMAIN s BY <1>1
  <2> QED BY <2>1 DEF Items
<1> QED BY <1>1

LEMMA WindowWithoutPass ==
  ASSUME NEW w \in Windows, NEW p
  PROVE  LET v == WindowAfterExit(w, p) IN
         /\ v \in Windows /\ v.kind = w.kind
         /\ w.kind = "priority" => Items(v.passed) \subseteq Items(w.passed)
         /\ w.kind # "priority" => v = w
<1>1. CASE w.kind # "priority" BY <1>1 DEF WindowAfterExit
<1>2. CASE w.kind = "priority"
  <2> DEFINE ps == Without(w.passed, p)
  <2>1. w \in [kind : {"priority"}, start : Players, player : Players,
               passed : Seq(Players)]
    BY <1>2 DEF Windows
  <2>2. w.passed \in Seq(Players) BY <2>1
  <2>3. ps \in Seq(Players) /\ Items(ps) \subseteq Items(w.passed)
    <3>1. ps \in Seq(Players) /\ Items(ps) = Items(w.passed) \ {p} BY <2>2, WithoutItems
    <3> QED BY <3>1
  <2>4. WindowAfterExit(w, p) = [w EXCEPT !.passed = ps] BY <1>2 DEF WindowAfterExit
  <2> HIDE DEF ps
  <2> DEFINE v == [w EXCEPT !.passed = ps]
  <2>5. /\ v \in [kind : {"priority"}, start : Players, player : Players,
                  passed : Seq(Players)]
        /\ v.kind = "priority" /\ v.passed = ps
    BY <2>1, <2>3
  <2> HIDE DEF v
  <2>6. v \in Windows BY <2>5 DEF Windows
  <2> QED BY <1>2, <2>3, <2>4, <2>5, <2>6 DEF v
<1> QED BY <1>1, <1>2

LEMMA CombatWithout ==
  ASSUME NEW c \in Combats, NEW p
  PROVE  LET d == Remaining(c, p) IN
         /\ d \in Combats /\ d.step = c.step /\ d.defenders = c.defenders \ {p}
         /\ d.attacks = {a \in c.attacks :
                           a.defender # p /\ OwnerOf[a.attacker] # p}
         /\ d.blocks = {b \in c.blocks :
                          /\ b.defender # p /\ OwnerOf[b.blocker] # p
                          /\ [attacker |-> b.attacker, defender |-> b.defender]
                               \in d.attacks}
         /\ c = NoCombat => d = NoCombat
<1> DEFINE as == {a \in c.attacks : a.defender # p /\ OwnerOf[a.attacker] # p}
           bs == {b \in c.blocks :
                    /\ b.defender # p /\ OwnerOf[b.blocker] # p
                    /\ [attacker |-> b.attacker, defender |-> b.defender] \in as}
           ds == c.defenders \ {p}
           d  == [c EXCEPT !.defenders = ds, !.attacks = as, !.blocks = bs]
<1>1. Remaining(c, p) = d BY DEF Remaining
<1>2. /\ c.defenders \subseteq Players /\ c.attacks \subseteq Attacks
      /\ c.blocks \subseteq Blocks
  BY CombatFields
<1>3. ds \subseteq Players /\ as \subseteq Attacks /\ bs \subseteq Blocks BY <1>2
<1>4. c = NoCombat => ds = {} /\ as = {} /\ bs = {} BY DEF NoCombat
<1>5. bs = {b \in c.blocks :
              /\ b.defender # p /\ OwnerOf[b.blocker] # p
              /\ [attacker |-> b.attacker, defender |-> b.defender] \in as}
  OBVIOUS
<1>6. as = {a \in c.attacks : a.defender # p /\ OwnerOf[a.attacker] # p} OBVIOUS
<1> HIDE DEF ds, as, bs
<1>7. /\ d \in Combats /\ d.step = c.step /\ d.defenders = ds /\ d.attacks = as
      /\ d.blocks = bs
  BY <1>3 DEF Combats
<1>8. ASSUME c = NoCombat PROVE d = NoCombat
  <2>1. d = [NoCombat EXCEPT !.defenders = {}, !.attacks = {}, !.blocks = {}]
    BY <1>4, <1>8
  <2> HIDE DEF d
  <2> QED BY <2>1 DEF NoCombat
<1> HIDE DEF d
<1> QED BY <1>1, <1>5, <1>6, <1>7, <1>8 DEF ds

LEMMA ExitGameStep == ASSUME RootInv, NEW p \in Players, ExitGame(p) PROVE RootInv'
<1> DEFINE o  == Without(root.order, p)
           s  == Only(root.stack, {x \in Objects : ControllerOf[x] # p})
           w  == WindowAfterExit(root.window, p)
           ks == [source : Items(s) \union {NoSource}, author : Players \ {p}]
           es == Only(root.entries, ks)
           c  == Remaining(root.combat, p)
           h  == [root.hand EXCEPT ![p] = 0]
           l  == [root.library EXCEPT ![p] = 0]
           r  == [root EXCEPT !.order = o, !.stack = s, !.window = w, !.hand = h,
                              !.library = l, !.mana = @ \ {p}, !.landed = @ \ {p},
                              !.holds = @ \ {p}, !.entries = es, !.combat = c]
<1>1. /\ root \in Roots /\ IsTable(root) /\ ValidRoot(root) /\ WindowOfCommands(root)
      /\ StackBelongs(root) /\ CombatOf(root)
      /\ root.active # p /\ RootBecomes(Left(root, p))
  BY DEF RootInv, RootTypeOK, ExitGame
<1>2. /\ root.order \in Seq(Players) /\ root.stack \in Seq(Objects)
      /\ root.window \in Windows /\ root.entries \in Seq(Entries)
      /\ root.combat \in Combats /\ root.hand \in [Players -> Nat]
      /\ root.library \in [Players -> Nat] /\ Items(root.stack) \subseteq Objects
  BY <1>1, RootFields
<1>3. /\ Left(root, p).order = o /\ Left(root, p) = r BY <1>1 DEF Left, Roots
<1>4. o \in Seq(Players) /\ Items(o) = Seated(root) \ {p} /\ Injective(o)
  <2>1. Injective(root.order) BY <1>1 DEF IsTable, Injective
  <2> QED BY <1>2, <2>1, WithoutItems DEF Seated
<1>5. s \in Seq(Objects) /\ Items(s) = {x \in Items(root.stack) : ControllerOf[x] # p}
  <2>1. /\ s \in Seq(Objects)
        /\ Items(s) = Items(root.stack) \cap {x \in Objects : ControllerOf[x] # p}
    BY SMTT(30), <1>2, OnlyItems
  <2> QED BY <1>2, <2>1
<1>6. /\ w \in Windows /\ w.kind = root.window.kind
      /\ root.window.kind = "priority"
           => Items(w.passed) \subseteq Items(root.window.passed)
      /\ root.window.kind # "priority" => w = root.window
  BY <1>2, WindowWithoutPass
<1>7. es \in Seq(Entries) /\ Items(es) \subseteq Items(root.entries)
      /\ \A e \in Items(es) : e.author # p
  <2>1. \A e \in ks : e.author # p OBVIOUS
  <2> HIDE DEF ks
  <2>2. es \in Seq(Entries) /\ Items(es) = Items(root.entries) \cap ks
    BY SMTT(30), <1>2, OnlyItems
  <2> QED BY <2>1, <2>2
<1>8. /\ c \in Combats /\ c.step = root.combat.step
      /\ c.defenders = root.combat.defenders \ {p}
      /\ c.attacks = {a \in root.combat.attacks :
                        a.defender # p /\ OwnerOf[a.attacker] # p}
      /\ c.blocks = {b \in root.combat.blocks :
                       /\ b.defender # p /\ OwnerOf[b.blocker] # p
                       /\ [attacker |-> b.attacker, defender |-> b.defender]
                            \in c.attacks}
      /\ root.combat = NoCombat => c = NoCombat
  BY SMTT(30), <1>2, CombatWithout
<1>9. h \in [Players -> Nat] /\ l \in [Players -> Nat] BY <1>2
<1> HIDE DEF o, s, w, ks, es, c, h, l
<1>10. /\ r \in Roots /\ r.order = o /\ r.active = root.active
       /\ r.position = root.position /\ r.window = w /\ r.stack = s
       /\ r.entries = es /\ r.combat = c
  BY ZenonT(40), <1>1, <1>4, <1>5, <1>6, <1>7, <1>8, <1>9 DEF Roots
<1> HIDE DEF r
<1>11. Seated(r) = Seated(root) \ {p} BY <1>4, <1>10 DEF Seated
<1>12. IsTable(r)
  <2>1. root.active \in Seated(r) BY <1>1, <1>11 DEF ValidRoot
  <2>2. o # <<>> BY <1>10, <2>1 DEF Seated, Items
  <2>3. Len(o) \in Nat \ {0} /\ DOMAIN o = 1 .. Len(o) BY <1>4, <2>2
  <2> QED BY <1>4, <1>10, <2>3 DEF IsTable, Injective
<1>13. WindowOfCommands(r)
  <2>1. ASSUME Empty(root.stack) PROVE Empty(s)
    <3>1. Items(s) = {} BY <1>5, <2>1 DEF Empty, Items
    <3> QED BY <1>5, <3>1, NoItems DEF Empty
  <2> QED BY <1>1, <1>6, <1>10, <2>1 DEF WindowOfCommands
<1>14. StackBelongs(r)
  BY <1>1, <1>5, <1>7, <1>10, <1>11 DEF StackBelongs
<1>15. CombatOf(r)
  <2>1. /\ root.position \notin CombatPositions \ {"beginning-of-combat"} => c = NoCombat
        /\ root.position \in {"declare-blockers", "combat-damage"}
             => c.step = "declare-blockers"
    BY <1>1, <1>8 DEF CombatOf
  <2>2. c.step # "none" => c.defenders = Seated(r) \ {root.active}
    BY <1>1, <1>8, <1>11 DEF CombatOf
  <2>3. \A a \in c.attacks :
          a.defender \in c.defenders /\ OwnerOf[a.attacker] \in Seated(r)
    BY <1>1, <1>8, <1>11 DEF CombatOf
  <2>4. \A b \in c.blocks :
          /\ [attacker |-> b.attacker, defender |-> b.defender] \in c.attacks
          /\ OwnerOf[b.blocker] \in Seated(r)
    BY <1>1, <1>8, <1>11 DEF CombatOf
  <2> QED BY <1>10, <2>1, <2>2, <2>3, <2>4 DEF CombatOf
<1>16. NothingIsUnheard(r)
  <2>1. Items(s) \subseteq Items(root.stack) BY <1>5
  <2> QED BY <1>6, <1>10, <1>11, <2>1 DEF NothingIsUnheard
<1> QED BY <1>1, <1>3, <1>10, <1>12, <1>13, <1>14, <1>15, <1>16, BecomesStep

-----------------------------------------------------------------------------
(* The invariant *)

LEMMA CommandInitInv == CommandInit => RootInv
<1> SUFFICES ASSUME CommandInit PROVE RootInv OBVIOUS
<1> DEFINE a == TurnOrder[1]
           w == TurnAction(a)
<1>1. /\ TurnOrder \in Seq(Players) /\ Len(TurnOrder) \in Nat \ {0}
      /\ DOMAIN TurnOrder = 1 .. Len(TurnOrder) /\ 1 \in DOMAIN TurnOrder
      /\ a \in Players
  OBVIOUS
<1>2. a \in Items(TurnOrder) BY <1>1 DEF Items
<1>3. w \in Windows /\ w.kind = "turn-based-action-required" /\ w.player = a
  BY <1>1, WindowTypes, AskingKinds
<1>4. NoCombat \in Combats BY DEF NoCombat, Combats
<1>5. /\ root = [order |-> TurnOrder, active |-> a, turn |-> 1, position |-> "untap",
                 window |-> w, stack |-> <<>>, pending |-> <<>>, hand |-> MaximumHand,
                 mana |-> {}, library |-> Library, landed |-> {}, entries |-> <<>>,
                 holds |-> {}, combat |-> NoCombat]
      /\ heard = [x \in Objects |-> {}]
  BY DEF CommandInit
<1> HIDE DEF a, w
<1>6. /\ <<>> \in Seq(Objects) /\ <<>> \in Seq(Entries)
      /\ MaximumHand \in [Players -> Nat] /\ Library \in [Players -> Nat]
      /\ "untap" \in Positions
  BY DEF Positions
<1>7. root \in Roots BY <1>1, <1>3, <1>4, <1>5, <1>6 DEF Roots
<1>8. RootTypeOK BY <1>5, <1>7 DEF RootTypeOK
<1>9. /\ root.order = TurnOrder /\ root.active = a /\ root.position = "untap"
      /\ root.window = w /\ root.stack = <<>> /\ root.entries = <<>>
      /\ root.holds = {} /\ root.combat = NoCombat
  BY <1>5
<1>10. /\ Items(root.stack) = {} /\ Items(root.entries) = {}
       /\ Seated(root) = Items(TurnOrder)
  BY <1>9 DEF Items, Seated
<1>11. IsTable(root) BY <1>1, <1>9 DEF IsTable
<1>12. ValidBundle(root)
  <2>1. NoTriggerIsOnTheStack(root) BY <1>10 DEF NoTriggerIsOnTheStack
  <2>2. AsksRightly(root) BY <1>2, <1>3, <1>9, <1>10 DEF AsksRightly, Asking
  <2> QED BY <2>1, <2>2, AskingIsValid
<1>13. ValidRoot(root)
  BY <1>2, <1>9, <1>10, <1>12 DEF ValidRoot, NoCombat
<1>14. WindowOfCommands(root) BY <1>3, <1>9 DEF WindowOfCommands, Empty
<1>15. StackBelongs(root) BY <1>10 DEF StackBelongs
<1>16. CombatOf(root) BY <1>9 DEF CombatOf, NoCombat
<1>17. PassesAreHeard /\ EveryoneMayAnswer
  BY <1>3, <1>9 DEF PassesAreHeard, EveryoneMayAnswer
<1> QED BY <1>8, <1>11, <1>13, <1>14, <1>15, <1>16, <1>17 DEF RootInv

LEMMA CommandNextInv == RootInv /\ [CommandNext]_rootVars => RootInv'
<1> SUFFICES ASSUME RootInv, [CommandNext]_rootVars PROVE RootInv' OBVIOUS
<1>1. CASE UNCHANGED rootVars
  BY <1>1 DEF rootVars, RootInv, RootTypeOK, IsTable, PassesAreHeard, EveryoneMayAnswer
<1>2. ASSUME NEW p \in Players, MovesOn(p) PROVE RootInv'
  BY <1>2, ReleaseHoldStep, PassPriorityStep, RecordSbaStep, ResolveTopStep,
     ResolveManualStep, AdvanceTableStep DEF MovesOn
<1>3. ASSUME NEW p \in Players, Interferes(p) PROVE RootInv'
  <2>1. CASE SetHold(p) BY <2>1, SetHoldStep
  <2>2. CASE \E o \in Objects, fast \in BOOLEAN : CastSpell(p, o, fast)
    BY <2>2, CastSpellStep
  <2>3. CASE \E source \in Objects \union {NoSource} : AddStackEntry(p, source)
    BY <2>3, AddStackEntryStep
  <2>4. CASE PlayLand(p) \/ Draw(p) \/ PutBack(p)
    BY <2>4, PlayLandStep, DrawStep, PutBackStep
  <2>5. CASE \E o \in Objects : TakeBack(p, o) BY <2>5, TakeBackStep
  <2>6. CASE SetCombatStep(p) BY <2>6, SetCombatStepStep
  <2>7. CASE \E a \in Attacks : a.attacker \in Attackers /\ DeclareAttack(p, a)
    BY <2>7, DeclareAttackStep
  <2>8. CASE \E k \in Blocks : DeclareBlock(p, k) BY <2>8, DeclareBlockStep
  <2>9. CASE ExitGame(p) BY <2>9, ExitGameStep
  <2> QED
    BY <1>3, <2>1, <2>2, <2>3, <2>4, <2>5, <2>6, <2>7, <2>8, <2>9 DEF Interferes
<1> QED BY <1>1, <1>2, <1>3 DEF CommandNext

LEMMA RootsAlways == CommandSpec => []RootInv
<1> QED BY CommandInitInv, CommandNextInv, PTL DEF CommandSpec

-----------------------------------------------------------------------------
(* Somebody can move the game on *)

LEMMA SameBundle ==
  ASSUME NEW b, NEW c, ValidBundle(b), c.order = b.order, c.active = b.active,
         c.position = b.position, c.window = b.window, c.stack = b.stack,
         c.pending = b.pending
  PROVE  ValidBundle(c)
<1>1. Seated(c) = Seated(b) /\ \A q, k : Ahead(c, q, k) = Ahead(b, q, k)
  BY DEF Seated, Ahead, Seat
<1>2. WindowPlayersAreSeated(c)
  BY <1>1 DEF ValidBundle, WindowPlayersAreSeated
<1>3. PassesAreContiguous(c)
  BY <1>1 DEF ValidBundle, PassesAreContiguous
<1>4. /\ WindowFitsPosition(c) /\ TriggersAreSettled(c) /\ StackIsSettled(c)
      /\ ResolvesTheTop(c) /\ NoTriggerIsOnTheStack(c)
  BY DEF ValidBundle, WindowFitsPosition, TriggersAreSettled, StackIsSettled,
     ResolvesTheTop, NoTriggerIsOnTheStack
<1> QED BY <1>2, <1>3, <1>4 DEF ValidBundle

LEMMA ReleasedIsValid ==
  ASSUME RootInv, NEW p PROVE ValidRoot(HoldReleased(p))
<1> DEFINE r == [root EXCEPT !.holds = @ \ {p}]
<1>1. root \in Roots /\ ValidRoot(root) BY DEF RootInv, RootTypeOK
<1>2. root.holds \subseteq Players BY <1>1, RootFields
<1>3. /\ r \in Roots /\ r.order = root.order /\ r.active = root.active
      /\ r.position = root.position /\ r.window = root.window
      /\ r.stack = root.stack /\ r.entries = root.entries /\ r.combat = root.combat
      /\ r.pending = root.pending /\ r.holds \subseteq root.holds
  BY <1>1, <1>2 DEF Roots
<1>4. HoldReleased(p) = r BY DEF HoldReleased
<1> HIDE DEF r
<1>5. ValidBundle(r) BY <1>1, <1>3, SameBundle DEF ValidRoot
<1> QED BY <1>1, <1>3, <1>4, <1>5, ValidAsBefore

LEMMA RecordedIsValid ==
  ASSUME RootInv, root.window.kind = "sba-check-required"
  PROVE  /\ root.window.player \in Seated(root)
         /\ ValidRoot(SbaRecorded(root, FALSE))
<1> DEFINE p == root.window.player
           w == Priority(p, p, <<>>)
           r == [root EXCEPT !.window = w]
<1>1. /\ root \in Roots /\ ValidRoot(root) /\ ValidBundle(root) /\ IsTable(root)
      /\ root.window \in Windows /\ root.pending = <<>> /\ root.window.grant
  BY RootFields DEF RootInv, RootTypeOK, ValidRoot, WindowOfCommands
<1>2. p \in Seated(root) /\ root.position # "untap"
  BY <1>1 DEF ValidBundle, WindowPlayersAreSeated, WindowFitsPosition, PlayerKinds
<1>3. p \in Players BY <1>1, <1>2, RootFields
<1>4. SbaRecorded(root, FALSE) = r BY <1>1 DEF SbaRecorded, Empty
<1>5. /\ w \in Windows /\ w.kind = "priority" /\ w.start = p /\ w.player = p
      /\ w.passed = <<>>
  <2>1. <<>> \in Seq(Players) OBVIOUS
  <2> QED BY <1>3, <2>1, WindowTypes DEF Priority
<1> HIDE DEF p, w
<1>6. /\ r \in Roots /\ r.window = w /\ r.order = root.order
      /\ r.active = root.active /\ r.position = root.position
      /\ r.stack = root.stack /\ r.entries = root.entries
      /\ r.combat = root.combat /\ r.holds = root.holds
  BY <1>1, <1>5, AnotherWindow
<1> HIDE DEF r
<1>7. r.pending = <<>> /\ NoTriggerIsOnTheStack(r) BY <1>6, NothingIsPending
<1>8. Seated(r) = Seated(root) /\ IsTable(r) BY <1>1, <1>6 DEF Seated, IsTable
<1>9. PassesAreContiguous(r)
  <2>1. Ahead(r, p, 0) = p BY <1>2, <1>8, AheadOfNobody
  <2>2. Len(w.passed) = 0 /\ DOMAIN w.passed = {} BY <1>5
  <2>3. Len(w.passed) < Len(r.order) BY <1>8, <2>2 DEF IsTable
  <2> QED BY <1>5, <1>6, <2>1, <2>2, <2>3 DEF PassesAreContiguous
<1>10. ValidBundle(r)
  BY <1>2, <1>5, <1>6, <1>7, <1>8, <1>9 DEF ValidBundle, WindowFitsPosition,
     WindowPlayersAreSeated, TriggersAreSettled, StackIsSettled, ResolvesTheTop,
     CleanupKinds, SettledKinds, BoundaryKinds, PlayerKinds, Empty
<1>11. ValidRoot(r) BY <1>1, <1>6, <1>10, ValidAsBefore
<1> QED BY <1>2, <1>4, <1>11 DEF p

LEMMA UnderTheTop ==
  ASSUME NEW T, NEW s \in Seq(T), s # <<>>, NEW x \in Items(s), x # Top(s)
  PROVE  x \in Items(SubSeq(s, 1, Len(s) - 1))
<1>1. Len(s) \in Nat /\ Len(s) >= 1 /\ DOMAIN s = 1 .. Len(s) OBVIOUS
<1>2. PICK i \in 1 .. Len(s) : s[i] = x BY <1>1 DEF Items
<1>3. i \in 1 .. Len(s) - 1 BY <1>1, <1>2 DEF Top
<1>4. DOMAIN SubSeq(s, 1, Len(s) - 1) = 1 .. Len(s) - 1 BY <1>1
<1>5. SubSeq(s, 1, Len(s) - 1)[i] = x BY <1>1, <1>2, <1>3
<1> QED BY <1>3, <1>4, <1>5 DEF Items

(* The top resolves as soon as no entry is left that names it. *)
LEMMA ResolvedIsValid ==
  ASSUME RootInv, root.window.kind = "resolution-ready", NEW es \in Seq(Entries),
         Items(es) \subseteq Items(root.entries),
         \A e \in Items(es) : e.source # Top(root.stack)
  PROVE  ValidRoot(Resolved([root EXCEPT !.entries = es]))
<1> DEFINE s == SubSeq(root.stack, 1, Len(root.stack) - 1)
           w == SbaCheck(root.active, TRUE)
           r == [root EXCEPT !.entries = es, !.stack = s, !.window = w]
<1>1. root \in Roots /\ ValidRoot(root) /\ ValidBundle(root)
  BY DEF RootInv, RootTypeOK, ValidRoot
<1>2. root.stack \in Seq(Objects) /\ root.active \in Players BY <1>1, RootFields
<1>3. root.stack # <<>> /\ root.position # "untap"
  BY <1>1 DEF ValidBundle, ResolvesTheTop, WindowFitsPosition, Empty
<1>4. Resolved([root EXCEPT !.entries = es]) = r BY <1>1 DEF Resolved, Roots
<1>5. /\ s \in Seq(Objects)
      /\ \A x \in Items(root.stack) : x # Top(root.stack) => x \in Items(s)
  BY <1>2, <1>3, BelowTheTop, UnderTheTop
<1>6. w \in Windows BY <1>2, WindowTypes
<1>7. w.kind = "sba-check-required" /\ w.player = root.active BY AskingKinds
<1> HIDE DEF s, w
<1>8. /\ r \in Roots /\ r.order = root.order /\ r.active = root.active
      /\ r.position = root.position /\ r.window = w
      /\ r.stack = s /\ r.entries = es /\ r.combat = root.combat
      /\ r.holds = root.holds
  BY <1>1, <1>5, <1>6 DEF Roots
<1> HIDE DEF r
<1>9. Seated(r) = Seated(root) BY <1>8 DEF Seated
<1>10. ValidBundle(r)
  <2>1. NoTriggerIsOnTheStack(r) BY <1>8, NothingIsPending
  <2>2. AsksRightly(r)
    BY <1>1, <1>3, <1>7, <1>8, <1>9 DEF AsksRightly, Asking, ValidRoot
  <2> QED BY <2>1, <2>2, AskingIsValid
<1>11. \A e \in Items(r.entries) :
         e.author \in Seated(r) /\ (e.source # NoSource => e.source \in Items(r.stack))
  BY <1>1, <1>5, <1>8, <1>9 DEF ValidRoot
<1>12. ValidRoot(r)
  BY <1>1, <1>8, <1>9, <1>10, <1>11 DEF ValidRoot
<1> QED BY <1>4, <1>12

(* Once everybody has passed, the controller of the top resolves it: with the
   entry that names it, if there is one. *)
LEMMA SomebodyResolves ==
  ASSUME RootInv, Len(root.order) > 1, NoHold, ~Pinned,
         root.window.kind = "resolution-ready"
  PROVE  \E p \in Players : MayMoveOn(p)
<1> DEFINE o == Top(root.stack)
           c == ControllerOf[o]
<1>1. /\ root \in Roots /\ ValidRoot(root) /\ ValidBundle(root) /\ StackBelongs(root)
      /\ root.stack \in Seq(Objects) /\ root.entries \in Seq(Entries)
  BY RootFields DEF RootInv, RootTypeOK, ValidRoot
<1>2. root.stack # <<>> /\ root.window.object = o
  BY <1>1 DEF ValidBundle, ResolvesTheTop, Empty
<1>3. o \in Objects /\ o \in Items(root.stack) BY <1>1, <1>2, TopIsThere
<1>4. c \in Seated(root) /\ c \in Players
  <2>1. c \in Seated(root) BY <1>1, <1>3 DEF StackBelongs
  <2> QED BY <1>1, <2>1, RootFields
<1>5. Playing(c) /\ Steward(root) = c
  BY <1>2, <1>4 DEF Playing, Steward, Empty
<1>6. o # NoSource BY <1>3
<1>7. Naming(o) = {} \/ Naming(o) = {Len(root.entries)}
  BY <1>2 DEF Pinned
<1> HIDE DEF o, c
<1>8. CASE Naming(o) = {}
  <2>1. \A e \in Items(root.entries) : e.source # o
    BY <1>8 DEF Naming, Items
  <2>2. [root EXCEPT !.entries = root.entries] = root BY <1>1 DEF Roots
  <2>3. ValidRoot(Resolved([root EXCEPT !.entries = root.entries]))
    BY <1>1, <2>1, ResolvedIsValid DEF o
  <2>4. ValidRoot(Resolved(root)) BY <2>2, <2>3
  <2>5. MayResolveTop(c) BY <1>5 DEF MayResolveTop
  <2> QED BY <1>4, <2>4, <2>5 DEF MayMoveOn
<1>9. CASE Naming(o) = {Len(root.entries)}
  <2> DEFINE n  == Len(root.entries)
             es == SubSeq(root.entries, 1, n - 1)
  <2>1. /\ n \in DOMAIN root.entries /\ root.entries[n].source = o
        /\ \A i \in DOMAIN root.entries : root.entries[i].source = o => i = n
    BY <1>9 DEF Naming
  <2>2. /\ n \in Nat /\ n >= 1 /\ DOMAIN root.entries = 1 .. n /\ root.entries # <<>>
    BY <1>1, <2>1
  <2>3. root.entries[n] \in Items(root.entries) BY <2>1 DEF Items
  <2>4. Top(root.entries).source = o /\ Top(root.entries).author = c
    <3>1. root.entries[n].author = ControllerOf[o]
      BY <1>1, <1>6, <2>1, <2>3 DEF StackBelongs
    <3> QED BY <2>1, <3>1 DEF Top, c
  <2>5. es \in Seq(Entries) /\ Items(es) \subseteq Items(root.entries)
    BY <1>1, <2>2, BelowTheTop
  <2>6. ASSUME NEW e \in Items(es) PROVE e.source # o
    <3>1. DOMAIN es = 1 .. n - 1 /\ \A i \in 1 .. n - 1 : es[i] = root.entries[i]
      BY <1>1, <2>2
    <3>2. PICK i \in 1 .. n - 1 : e = root.entries[i] BY <3>1 DEF Items
    <3>3. i \in DOMAIN root.entries /\ i # n BY <2>2, <3>2
    <3> QED BY <2>1, <3>2, <3>3
  <2>7. ValidRoot(Resolved([root EXCEPT !.entries = es]))
    <3> HIDE DEF es
    <3> QED BY <2>5, <2>6, ResolvedIsValid DEF o
  <2>8. ManuallyResolved = Resolved([root EXCEPT !.entries = es])
    BY <1>6, <2>4 DEF ManuallyResolved
  <2>9. MayResolveManual(c)
    BY <1>2, <1>5, <1>6, <2>2, <2>4 DEF MayResolveManual, Empty
  <2> QED BY <1>4, <2>7, <2>8, <2>9 DEF MayMoveOn
<1> QED BY <1>7, <1>8, <1>9

(* The active player moves the turn on. *)
LEMMA ActiveAdvances ==
  ASSUME RootInv, Len(root.order) > 1, NoHold, MayProgress(root)
  PROVE  \E p \in Players : MayMoveOn(p)
<1> DEFINE n == Progressed(root)
           r == [n EXCEPT !.combat = CombatAfter(n)]
<1>1. root \in Roots /\ ValidRoot(root) /\ CombatOf(root) BY DEF RootInv, RootTypeOK
<1>2. TurnWentOn(n) BY ProgressedRoot
<1>3. TableAdvanced = r BY DEF TableAdvanced
<1> HIDE DEF n
<1>4. /\ CombatFits(n) /\ r \in Roots /\ CombatOf(r)
      /\ r.combat.defenders \subseteq Seated(r)
      /\ r.order = n.order /\ r.active = n.active /\ r.position = n.position
      /\ r.window = n.window /\ r.stack = n.stack /\ r.entries = n.entries
      /\ r.holds = n.holds
  BY <1>2, CombatOfTheNextStep
<1> HIDE DEF r
<1>5. /\ r.order = root.order /\ r.stack = root.stack /\ r.entries = root.entries
      /\ r.holds = root.holds /\ r.active \in Seated(root) /\ root.stack = <<>>
  BY <1>2, <1>4 DEF TurnWentOn
<1>6. Seated(r) = Seated(root) BY <1>5 DEF Seated
<1>7. ValidBundle(r)
  <2>1. NoTriggerIsOnTheStack(r) BY <1>4, NothingIsPending
  <2>2. AsksRightly(r)
    BY <1>2, <1>4, <1>6 DEF TurnWentOn, AsksRightly
  <2> QED BY <2>1, <2>2, AskingIsValid
<1>8. /\ \A a \in r.combat.attacks : OwnerOf[a.attacker] \in Seated(r)
      /\ \A b \in r.combat.blocks : OwnerOf[b.blocker] \in Seated(r)
  BY <1>4 DEF CombatOf
<1>9. ValidRoot(r)
  <2>1. r.active \in Seated(r) /\ r.holds \subseteq Seated(r)
    BY <1>1, <1>5, <1>6 DEF ValidRoot
  <2>2. \A e \in Items(r.entries) :
          e.author \in Seated(r) /\ (e.source # NoSource => e.source \in Items(r.stack))
    BY <1>1, <1>5, <1>6 DEF ValidRoot
  <2> QED BY <1>4, <1>7, <1>8, <2>1, <2>2 DEF ValidRoot
<1>10. root.active \in Seated(root) /\ root.active \in Players
  BY <1>1, RootFields DEF ValidRoot
<1>11. MayAdvanceTable(root.active)
  BY <1>4, <1>5, <1>10 DEF MayAdvanceTable, Playing, Steward, Empty, n
<1> QED BY <1>3, <1>9, <1>10, <1>11 DEF MayMoveOn

LEMMA StepsAreAllowed ==
  ASSUME NEW q \in Positions, q # "untap", q # "cleanup"
  PROVE  <<q, NextPosition(q)>> \in AllowedTransitions
BY DEF Positions, NextPosition, AllowedTransitions

LEMMA SomebodyAlwaysMovesOn == RootInv => SomebodyMovesOn
<1> SUFFICES ASSUME RootInv, Len(root.order) > 1, ~InCleanup, ~NothingToDraw, ~Pinned
             PROVE  \E p \in Players : MayMoveOn(p)
  BY DEF SomebodyMovesOn
<1>1. /\ root \in Roots /\ ValidRoot(root) /\ ValidBundle(root)
      /\ WindowOfCommands(root) /\ root.window \in Windows
      /\ root.pending = <<>> /\ root.position \in Positions
      /\ root.library \in [Players -> Nat] /\ root.active \in Players
  BY RootFields DEF RootInv, RootTypeOK, ValidRoot
<1>2. \A p \in Seated(root) : p \in Players /\ Playing(p)
  BY <1>1, RootFields DEF Playing
<1>3. CASE root.holds # {}
  <2>1. PICK p \in root.holds : TRUE BY <1>3
  <2>2. p \in Seated(root) BY <1>1 DEF ValidRoot
  <2>3. MayReleaseHold(p) /\ ValidRoot(HoldReleased(p))
    BY <1>2, <2>2, ReleasedIsValid DEF MayReleaseHold
  <2> QED BY <1>2, <2>2, <2>3 DEF MayMoveOn
<1>4. CASE root.holds = {}
  <2>1. NoHold BY <1>4 DEF NoHold
  <2>2. CASE root.window.kind = "turn-based-action-required"
    <3>1. MayCheckpoint(root) BY <1>1, <2>2 DEF MayCheckpoint, WindowOfCommands
    <3>2. root.position = "draw" => root.library[root.active] > 0
      <4>1. root.library[root.active] \in Nat BY <1>1
      <4>2. root.position = "draw" => root.library[root.active] # 0
        BY <2>2 DEF NothingToDraw
      <4> QED BY <4>1, <4>2
    <3>3. MayProgress(root) BY <3>1, <3>2 DEF MayProgress
    <3> QED BY <2>1, <3>3, ActiveAdvances
  <2>3. CASE root.window.kind = "sba-check-required"
    <3> DEFINE p == root.window.player
    <3>1. p \in Seated(root) /\ ValidRoot(SbaRecorded(root, FALSE))
      BY <2>3, RecordedIsValid
    <3>2. MayRecordSba(p) BY <1>2, <2>1, <2>3, <3>1 DEF MayRecordSba
    <3> QED BY <1>2, <3>1, <3>2 DEF MayMoveOn
  <2>4. CASE root.window.kind = "priority"
    <3> DEFINE p == root.window.player
    <3>1. p \in Seated(root)
      BY <1>1, <2>4 DEF ValidBundle, WindowPlayersAreSeated, PlayerKinds
    <3>2. MayPassPriority(p)
      BY <1>2, <2>1, <2>4, <3>1 DEF MayPassPriority, HasPriority, MayPass
    <3>3. ValidRoot(Passed(root)) BY <2>4, PassedRoot
    <3> QED BY <1>2, <3>1, <3>2, <3>3 DEF MayMoveOn
  <2>5. CASE root.window.kind = "resolution-ready"
    BY <2>1, <2>5, SomebodyResolves
  <2>6. CASE root.window.kind = "position-advance-ready"
    <3>1. root.position # "untap" /\ root.position # "cleanup"
      BY <1>1, <2>6 DEF InCleanup, ValidBundle, WindowFitsPosition
    <3>2. AtBoundary(root)
      BY <1>1, <2>6 DEF AtBoundary, ValidBundle, StackIsSettled, BoundaryKinds, Empty
    <3>3. <<root.position, NextPosition(root.position)>> \in AllowedTransitions
      BY <1>1, <3>1, StepsAreAllowed
    <3>4. MayProgress(root)
      BY <2>6, <3>2, <3>3 DEF MayProgress, MaySkipDraw, MayAdvance
    <3> QED BY <2>1, <3>4, ActiveAdvances
  <2>7. root.window.kind \in CleanupKinds => FALSE
    BY <1>1 DEF InCleanup, ValidBundle, WindowFitsPosition
  <2>8. root.window.kind # "trigger-order-required" BY <1>1 DEF WindowOfCommands
  <2>9. root.window.kind \in PlayerKinds \union BoundaryKinds \union {"resolution-ready"}
    BY <1>1, WindowFields
  <2> QED
    BY <2>2, <2>3, <2>4, <2>5, <2>6, <2>7, <2>8, <2>9
       DEF PlayerKinds, BoundaryKinds, CleanupKinds
<1> QED BY <1>3, <1>4

-----------------------------------------------------------------------------
(* The theorems *)

(* Nothing resolves before everybody at the table has passed with it on the stack,
   whatever is cast, taken back, noted or given up in the meantime
   (passPriority and resolveTopOfStack of the Core commands). *)
THEOREM EveryoneCouldAnswer == CommandSpec => []EveryoneMayAnswer
<1>1. RootInv => EveryoneMayAnswer BY DEF RootInv
<1> QED BY <1>1, RootsAlways, PTL

(* The combat context is always the one of the step the turn is in, among the
   players who are left (the combat handlers, the turn operations and
   handlePlayerExit). *)
THEOREM CombatKeepsStep == CommandSpec => []CombatFollowsTheTurn
<1>1. RootInv => CombatFollowsTheTurn
  BY DEF RootInv, CombatOf, CombatFollowsTheTurn
<1> QED BY <1>1, RootsAlways, PTL

(* Outside cleanup, the draw from an empty library and an object its entries hold
   back, the commands never lead to a root that no command moves on: what blocks the
   game is one of the three, and never the windows, the HOLDs, the stewards or the
   players who have left. *)
THEOREM TheGameGoesOn == CommandSpec => []SomebodyMovesOn
<1>1. RootInv => SomebodyMovesOn BY SomebodyAlwaysMovesOn
<1> QED BY <1>1, RootsAlways, PTL
=============================================================================
