------------------------- MODULE RulesAndSettingsProofs -------------------------
(***************************************************************************)
(* Proofs about the rules for a password and about the settings that say   *)
(* which of them are on: two specifications that share no state, so a step *)
(* of one says nothing of the other.                                       *)
(*                                                                         *)
(* The rules, for passwords of any length over any alphabet: the two loops *)
(* of PasswordRules and its search for rows of keys refuse what they are   *)
(* meant to refuse.  A loop that has not returned false knows how far back *)
(* the pattern it looks for reaches from the last character (RepeatKnows,  *)
(* SequenceKnows), and with it whether the next one completes the pattern; *)
(* a complete pattern stays in every longer password.  No key is twice in  *)
(* a row of keys (RowsKeys), so three pairs of keys side by side, each     *)
(* going on where the last one ended, lie in one line, which is what a     *)
(* window finds (WindowIsWalk).                                            *)
(*                                                                         *)
(* The settings, for any configurations, keys and requests.  What a        *)
(* request that nothing ran beside has read of the active configuration    *)
(* still stands when it writes (Right), so a refresh ends in agreement     *)
(* whatever the cache held before.  Where nothing overlapped or failed,    *)
(* the keys agree but while one request is about to write them (Settled),  *)
(* and that request knows what it still owes them (Sound).                 *)
(***************************************************************************)
EXTENDS PasswordRules, Settings, TLAPS

-------------------------------------------------------------------------------
(* The rules for a password *)

(* Positions i-1 and i of s hold neighbours in direction d. *)
Walk(s, i, d) == Neighbours(s[i - 1], s[i]) /\ s[i] - s[i - 1] = d

(* Four characters that end at position i, each a neighbour of the one before. *)
WalkOfFour(s, i, d) == Walk(s, i, d) /\ Walk(s, i - 1, d) /\ Walk(s, i - 2, d)

RepeatKnows ==
  /\ password = <<>> => repeat = NewRepeat
  /\ ~repeat.refused =>
       /\ repeat.run \in {1, 2}
       /\ Len(password) >= 2 =>
            (repeat.run = 2 <=> lower[Len(password)] = lower[Len(password) - 1])
       /\ repeat.run = 2 => Len(password) >= 2

(* run is how many characters at the end go up or down together: two or three
   in direction dir, or one alone.                                           *)
SequenceKnows ==
  LET n == Len(password) IN
  /\ password = <<>> => sequence = NewSequence
  /\ ~sequence.refused =>
       /\ sequence.dir \in {-1, 0, 1}
       /\ sequence.run \in {1, 2, 3}
       /\ sequence.dir = 0 <=> sequence.run = 1
       /\ sequence.run = 1 /\ n >= 2 => ~Walk(lower, n, -1) /\ ~Walk(lower, n, 1)
       /\ sequence.run >= 2 => n >= sequence.run /\ Walk(lower, n, sequence.dir)
       /\ sequence.run = 2 /\ n >= 3 => ~Walk(lower, n - 1, sequence.dir)
       /\ sequence.run = 3 => Walk(lower, n - 1, sequence.dir)

Word == /\ password \in Seq(Nat)
        /\ alphabet \subseteq Nat
        /\ repeat \in [run: Nat, refused: BOOLEAN]
        /\ sequence \in [run: Nat, dir: Int, refused: BOOLEAN]

TypingInv == Word /\ RepeatKnows /\ SequenceKnows /\ ScansExact

-------------------------------------------------------------------------------
LEMMA LowerNat == \A c \in Nat : Lower(c) \in Nat
BY DEF Lower, Uppercase

LEMMA TypedNat ==
  ASSUME Word, NEW i \in 1..Len(password)
  PROVE  lower[i] \in Nat
<1>1. password[i] \in Nat
  BY DEF Word
<1> QED BY <1>1, LowerNat DEF lower, LowerCase, Word

(* SequenceExact names the letters and the direction of four characters at
   once, the loop those of two at a time.                                    *)
LEMMA FourByPairs ==
  ASSUME NEW s, NEW i \in Int, NEW d \in {-1, 1}, \A k \in 0..3 : s[i - k] \in Nat
  PROVE  WalkOfFour(s, i, d) <=>
           /\ \A k \in 0..2 : s[i - k] - s[i - k - 1] = d
           /\ \/ \A k \in 0..3 : s[i - k] \in Lowercase
              \/ \A k \in 0..3 : s[i - k] \in Digits
<1>2. /\ s[i] \in Nat /\ s[i - 1] \in Nat /\ s[i - 2] \in Nat /\ s[i - 3] \in Nat
      /\ i - 1 - 1 = i - 2 /\ i - 2 - 1 = i - 3 /\ i - 0 = i
  OBVIOUS
<1> DEFINE a == s[i]  b == s[i - 1]  c == s[i - 2]  e == s[i - 3]
<1>3. WalkOfFour(s, i, d) <=> /\ Neighbours(b, a) /\ a - b = d
                              /\ Neighbours(c, b) /\ b - c = d
                              /\ Neighbours(e, c) /\ c - e = d
  BY <1>2 DEF WalkOfFour, Walk
<1>4. (\A k \in 0..2 : s[i - k] - s[i - k - 1] = d)
        <=> a - b = d /\ b - c = d /\ c - e = d
  BY <1>2
<1>5. \A S : (\A k \in 0..3 : s[i - k] \in S) <=> a \in S /\ b \in S /\ c \in S /\ e \in S
  <2>1. 0..3 = {0, 1, 2, 3}
    OBVIOUS
  <2> QED BY <1>2, <2>1
<1>6. \A x \in Nat : ~(x \in Lowercase /\ x \in Digits)
  BY DEF Lowercase, Digits
<1>7. a \in Nat /\ b \in Nat /\ c \in Nat /\ e \in Nat
  BY <1>2
<1> HIDE DEF a, b, c, e
<1> QED BY <1>3, <1>4, <1>5, <1>6, <1>7 DEF Neighbours

(* What the password holds stays where it is when a character is typed.      *)
LEMMA TypedStays ==
  ASSUME Word, NEW c \in Nat, password' = Append(password, c),
         NEW n, n = Len(password)
  PROVE  /\ n \in Nat
         /\ Len(password') = n + 1
         /\ password' \in Seq(Nat)
         /\ \A i \in 1..n : lower'[i] = lower[i]
         /\ lower'[n + 1] = Lower(c)
<1>1. n \in Nat
  BY DEF Word
<1>2. Len(password') = n + 1 /\ password' \in Seq(Nat)
  BY DEF Word
<1>3. /\ DOMAIN password = 1..n
      /\ DOMAIN password' = 1..(n + 1)
      /\ \A i \in 1..n : password'[i] = password[i]
      /\ password'[n + 1] = c
  BY <1>1, <1>2 DEF Word
<1> QED BY <1>1, <1>2, <1>3 DEF lower, LowerCase

LEMMA RepeatRoundFields ==
  ASSUME repeat.run \in Nat, NEW prev, NEW curr
  PROVE  LET round == RepeatRound(prev, curr) IN
         /\ round.run = IF curr = prev THEN repeat.run + 1 ELSE 1
         /\ round.refused <=> round.run >= 3
         /\ round \in [run: Nat, refused: BOOLEAN]
<1>1. RepeatRound(prev, curr).run = IF curr = prev THEN repeat.run + 1 ELSE 1
  BY DEF RepeatRound
<1>2. RepeatRound(prev, curr).refused <=> RepeatRound(prev, curr).run >= 3
  BY DEF RepeatRound, REPEAT_MIN_LENGTH
<1>3. RepeatRound(prev, curr) \in [run: Nat, refused: BOOLEAN]
  BY DEF RepeatRound, REPEAT_MIN_LENGTH
<1> QED BY <1>1, <1>2, <1>3

(* One round of the loop of NoRepeatedChars.                                 *)
LEMMA RepeatStep ==
  ASSUME TypingInv, NEW c \in Nat, Type(c)
  PROVE  (RepeatKnows /\ RepeatExact)' /\ repeat' \in [run: Nat, refused: BOOLEAN]
<1>0. PICK n \in Nat : n = Len(password)
  BY DEF TypingInv, Word
<1>1. /\ Len(password') = n + 1
      /\ \A i \in 1..n : lower'[i] = lower[i]
      /\ lower'[n + 1] = Lower(c)
  BY <1>0, TypedStays DEF TypingInv, Type
<1>2. /\ password = <<>> <=> n = 0
      /\ password' # <<>>
  BY <1>0, <1>1 DEF TypingInv, Word
<1>3. /\ repeat \in [run: Nat, refused: BOOLEAN]
      /\ RepeatExact /\ RepeatKnows
  BY DEF TypingInv, Word, ScansExact
<1>4. RepeatExact' <=>
        (repeat'.refused <=> \E i \in 3..(n + 1) : /\ lower'[i] = lower'[i - 1]
                                                   /\ lower'[i] = lower'[i - 2])
  BY <1>1 DEF RepeatExact
<1>5. RepeatExact <=>
        (repeat.refused <=> \E i \in 3..n : /\ lower'[i] = lower'[i - 1]
                                            /\ lower'[i] = lower'[i - 2])
  BY <1>0, <1>1 DEF RepeatExact
<1>9. RepeatKnows' <=>
        (~repeat'.refused =>
           /\ repeat'.run \in {1, 2}
           /\ n >= 1 => (repeat'.run = 2 <=> lower'[n + 1] = lower'[n])
           /\ repeat'.run = 2 => n >= 1)
  BY <1>1, <1>2 DEF RepeatKnows
<1>6. CASE repeat.refused
  <2>1. repeat' = repeat
    BY <1>6 DEF Type
  <2>2. RepeatExact'
    BY <1>3, <1>4, <1>5, <1>6, <2>1
  <2> QED BY <1>3, <1>6, <1>9, <2>1, <2>2
<1>7. CASE ~repeat.refused /\ n = 0
  <2>1. repeat' = NewRepeat
    BY <1>2, <1>3, <1>7 DEF RepeatKnows, Type
  <2>2. repeat' = [run |-> 1, refused |-> FALSE]
    BY <2>1 DEF NewRepeat
  <2>3. /\ repeat'.run = 1 /\ repeat'.refused = FALSE
        /\ repeat' \in [run: Nat, refused: BOOLEAN]
    BY <2>2
  <2>4. RepeatKnows'
    BY <1>7, <1>9, <2>3
  <2>5. RepeatExact'
    BY <1>4, <1>7, <2>3
  <2> QED BY <2>3, <2>4, <2>5
<1>8. CASE ~repeat.refused /\ n > 0
  <2> DEFINE a == lower'[n]  same == Lower(c) = a
  <2>1. lower[Len(password)] = a
    BY <1>0, <1>1, <1>8
  <2>2. repeat' = RepeatRound(a, Lower(c))
    BY <1>2, <1>8, <2>1 DEF Type
  <2>3. /\ repeat.run \in {1, 2}
        /\ n >= 2 => (repeat.run = 2 <=> a = lower'[n - 1])
        /\ repeat.run = 2 => n >= 2
    BY <1>0, <1>1, <1>3, <1>8, <2>1 DEF RepeatKnows
  <2>4. (\E i \in 3..(n + 1) : lower'[i] = lower'[i - 1] /\ lower'[i] = lower'[i - 2])
          <=> n >= 2 /\ lower'[n + 1] = lower'[n] /\ lower'[n + 1] = lower'[n - 1]
    BY <1>3, <1>5, <1>8
  <2>5. same <=> lower'[n + 1] = lower'[n]
    BY <1>1
  <2>6. /\ repeat'.run = IF same THEN repeat.run + 1 ELSE 1
        /\ repeat'.refused <=> repeat'.run >= 3
        /\ repeat' \in [run: Nat, refused: BOOLEAN]
    BY <2>2, <2>3, RepeatRoundFields
  <2> HIDE DEF a, same
  <2>7. RepeatExact'
    <3>1. repeat'.refused <=> same /\ repeat.run = 2
      BY <2>3, <2>6
    <3>2. n >= 2 => (repeat.run = 2 <=> lower'[n] = lower'[n - 1])
      BY <2>3 DEF a
    <3> QED BY <1>4, <2>3, <2>4, <2>5, <3>1, <3>2
  <2> QED BY <1>8, <1>9, <2>3, <2>5, <2>6, <2>7
<1> QED BY <1>0, <1>6, <1>7, <1>8

LEMMA SequenceRoundFields ==
  ASSUME sequence.run \in Nat, NEW prev \in Nat, NEW curr \in Nat
  PROVE  LET round == SequenceRound(prev, curr)
             dir == curr - prev
         IN /\ ~Neighbours(prev, curr) => round = NewSequence
            /\ Neighbours(prev, curr) =>
                 /\ round.dir = dir
                 /\ round.run = IF sequence.dir \in {0, dir} THEN sequence.run + 1 ELSE 2
                 /\ round.refused <=> round.run >= 4
            /\ round \in [run: Nat, dir: Int, refused: BOOLEAN]
<1>1. CASE ~Neighbours(prev, curr)
  <2>1. SequenceRound(prev, curr) = NewSequence
    BY <1>1 DEF SequenceRound
  <2>2. NewSequence \in [run: Nat, dir: Int, refused: BOOLEAN]
    BY DEF NewSequence
  <2> QED BY <1>1, <2>1, <2>2
<1>2. CASE Neighbours(prev, curr)
  <2> DEFINE dir == curr - prev
             run == IF sequence.dir \in {0, dir} THEN sequence.run + 1 ELSE 2
  <2>1. SequenceRound(prev, curr) = [run |-> run, dir |-> dir, refused |-> run >= 4]
    <3>1. CASE sequence.dir \in {0, dir}
      BY <1>2, <3>1 DEF SequenceRound, SEQUENCE_MIN_LENGTH
    <3>2. CASE sequence.dir \notin {0, dir}
      BY <1>2, <3>2 DEF SequenceRound, SEQUENCE_MIN_LENGTH
    <3> QED BY <3>1, <3>2
  <2>2. run \in Nat /\ dir \in Int
    OBVIOUS
  <2> HIDE DEF run, dir
  <2>3. /\ SequenceRound(prev, curr).run = run
        /\ SequenceRound(prev, curr).dir = dir
    BY <2>1
  <2>4. SequenceRound(prev, curr).refused <=> run >= 4
    <3>1. \A y \in Nat, x \in Int :
            [run |-> y, dir |-> x, refused |-> y >= 4].refused <=> y >= 4
      OBVIOUS
    <3> QED BY <2>1, <2>2, <3>1
  <2>5. SequenceRound(prev, curr) \in [run: Nat, dir: Int, refused: BOOLEAN]
    BY <2>1, <2>2
  <2> QED BY <1>2, <2>3, <2>4, <2>5 DEF run, dir
<1> QED BY <1>1, <1>2

(* One round of the loop of NoSequentialChars.                               *)
LEMMA SequenceStep ==
  ASSUME TypingInv, NEW c \in Nat, Type(c)
  PROVE  (SequenceKnows /\ SequenceExact)' /\ sequence' \in [run: Nat, dir: Int, refused: BOOLEAN]
<1>0. PICK n \in Nat : n = Len(password)
  BY DEF TypingInv, Word
<1>1. /\ Len(password') = n + 1
      /\ password' \in Seq(Nat)
      /\ \A i \in 1..n : lower'[i] = lower[i]
      /\ lower'[n + 1] = Lower(c)
  BY <1>0, TypedStays DEF TypingInv, Type
<1>2. /\ password = <<>> <=> n = 0
      /\ password' # <<>>
  BY <1>0, <1>1 DEF TypingInv, Word
<1>3. /\ sequence \in [run: Nat, dir: Int, refused: BOOLEAN]
      /\ SequenceExact /\ SequenceKnows
  BY DEF TypingInv, Word, ScansExact
<1>4. \A i \in 1..(n + 1) : lower'[i] \in Nat
  <2>1. \A i \in 1..n : lower[i] \in Nat
    BY <1>0, TypedNat DEF TypingInv
  <2>2. lower'[n + 1] \in Nat
    BY <1>1, LowerNat
  <2>3. \A i \in 1..n : lower'[i] \in Nat
    BY <1>1, <2>1
  <2>4. \A i \in 1..(n + 1) : i \in 1..n \/ i = n + 1
    OBVIOUS
  <2> QED BY <2>2, <2>3, <2>4
<1> DEFINE w(i, d) == Walk(lower', i, d)
           four(i, d) == w(i, d) /\ w(i - 1, d) /\ w(i - 2, d)
<1>5. \A i \in 4..(n + 1), d \in {-1, 1} :
        four(i, d) <=> /\ \A k \in 0..2 : lower'[i - k] - lower'[i - k - 1] = d
                       /\ \/ \A k \in 0..3 : lower'[i - k] \in Lowercase
                          \/ \A k \in 0..3 : lower'[i - k] \in Digits
  <2> TAKE i \in 4..(n + 1), d \in {-1, 1}
  <2>1. i \in Int /\ \A k \in 0..3 : lower'[i - k] \in Nat
    BY <1>4
  <2>2. WalkOfFour(lower', i, d) <=>
          /\ \A k \in 0..2 : lower'[i - k] - lower'[i - k - 1] = d
          /\ \/ \A k \in 0..3 : lower'[i - k] \in Lowercase
             \/ \A k \in 0..3 : lower'[i - k] \in Digits
    BY <2>1, FourByPairs
  <2>3. WalkOfFour(lower', i, d) <=> four(i, d)
    BY DEF WalkOfFour
  <2> HIDE DEF four
  <2> QED BY <2>2, <2>3
<1>6. SequenceExact' <=>
        (sequence'.refused <=> \E i \in 4..(n + 1), d \in {-1, 1} : four(i, d))
  BY <1>1, <1>5 DEF SequenceExact
<1>7. SequenceExact <=>
        (sequence.refused <=> \E i \in 4..n, d \in {-1, 1} : four(i, d))
  <2> HIDE DEF four
  <2>1. \A i \in 4..n, d \in {-1, 1} :
        four(i, d) <=> /\ \A k \in 0..2 : lower[i - k] - lower[i - k - 1] = d
                       /\ \/ \A k \in 0..3 : lower[i - k] \in Lowercase
                          \/ \A k \in 0..3 : lower[i - k] \in Digits
    <3> TAKE i \in 4..n, d \in {-1, 1}
    <3>1. /\ i \in 4..(n + 1)
          /\ \A k \in 0..3 : lower'[i - k] = lower[i - k]
          /\ \A k \in 0..2 : lower'[i - k - 1] = lower[i - k - 1]
      BY <1>1
    <3>2. (\A k \in 0..2 : lower[i - k] - lower[i - k - 1] = d)
            <=> (\A k \in 0..2 : lower'[i - k] - lower'[i - k - 1] = d)
      BY <3>1
    <3>3. \A S : (\A k \in 0..3 : lower[i - k] \in S) <=> (\A k \in 0..3 : lower'[i - k] \in S)
      BY <3>1
    <3> QED BY <1>5, <3>1, <3>2, <3>3
  <2> QED BY <1>0, <2>1 DEF SequenceExact
<1>8. SequenceKnows' <=>
        (~sequence'.refused =>
           /\ sequence'.dir \in {-1, 0, 1}
           /\ sequence'.run \in {1, 2, 3}
           /\ sequence'.dir = 0 <=> sequence'.run = 1
           /\ sequence'.run = 1 /\ n >= 1 => ~w(n + 1, -1) /\ ~w(n + 1, 1)
           /\ sequence'.run >= 2 => n + 1 >= sequence'.run /\ w(n + 1, sequence'.dir)
           /\ sequence'.run = 2 /\ n >= 2 => ~w(n, sequence'.dir)
           /\ sequence'.run = 3 => w(n, sequence'.dir))
  BY <1>1, <1>2 DEF SequenceKnows
<1>9. CASE sequence.refused
  <2>1. sequence' = sequence
    BY <1>9 DEF Type
  <2>2. \A i \in 4..n : i \in 4..(n + 1)
    OBVIOUS
  <2> HIDE DEF four
  <2>3. SequenceExact'
    BY <1>3, <1>6, <1>7, <1>9, <2>1, <2>2
  <2> QED BY <1>3, <1>8, <1>9, <2>1, <2>3
<1>10. CASE ~sequence.refused /\ n = 0
  <2>1. sequence' = NewSequence
    BY <1>2, <1>3, <1>10 DEF SequenceKnows, Type
  <2>2. sequence' = [run |-> 1, dir |-> 0, refused |-> FALSE]
    BY <2>1 DEF NewSequence
  <2>3. /\ sequence'.run = 1 /\ sequence'.dir = 0 /\ sequence'.refused = FALSE
        /\ sequence' \in [run: Nat, dir: Int, refused: BOOLEAN]
    BY <2>2
  <2>4. SequenceKnows'
    BY <1>8, <1>10, <2>3
  <2>5. SequenceExact'
    BY <1>6, <1>10, <2>3
  <2> QED BY <2>3, <2>4, <2>5
<1>11. CASE ~sequence.refused /\ n > 0
  <2> DEFINE a == lower'[n]  x == lower'[n + 1]
  <2>1. lower[Len(password)] = a /\ Lower(c) = x /\ a \in Nat /\ x \in Nat
    BY <1>0, <1>1, <1>4, <1>11
  <2>2. sequence' = SequenceRound(a, x)
    BY <1>2, <1>11, <2>1 DEF Type
  <2>3. /\ ~Neighbours(a, x) => sequence' = NewSequence
        /\ Neighbours(a, x) =>
             /\ sequence'.dir = x - a
             /\ sequence'.run = IF sequence.dir \in {0, x - a} THEN sequence.run + 1 ELSE 2
             /\ sequence'.refused <=> sequence'.run >= 4
        /\ sequence' \in [run: Nat, dir: Int, refused: BOOLEAN]
    BY <1>3, <2>1, <2>2, SequenceRoundFields
  <2>4. \A i, d : i \in 2..n => (Walk(lower, i, d) <=> w(i, d))
    BY <1>1 DEF Walk
  <2>5. /\ sequence.dir \in {-1, 0, 1}
        /\ sequence.run \in {1, 2, 3}
        /\ sequence.dir = 0 <=> sequence.run = 1
        /\ sequence.run = 1 /\ n >= 2 => ~w(n, -1) /\ ~w(n, 1)
        /\ sequence.run >= 2 => n >= sequence.run /\ w(n, sequence.dir)
        /\ sequence.run = 2 /\ n >= 3 => ~w(n - 1, sequence.dir)
        /\ sequence.run = 3 => w(n - 1, sequence.dir)
    BY <1>0, <1>3, <1>11, <2>4 DEF SequenceKnows
  <2>6. \A i, d, e : w(i, d) /\ w(i, e) => d = e
    BY DEF Walk
  <2>7. \A d : w(n + 1, d) <=> Neighbours(a, x) /\ x - a = d
    BY DEF Walk
  <2>8. (\E i \in 4..(n + 1), d \in {-1, 1} : four(i, d))
          <=> n >= 3 /\ \E d \in {-1, 1} : w(n + 1, d) /\ w(n, d) /\ w(n - 1, d)
    <3>1. \A i \in 4..n, d \in {-1, 1} : ~four(i, d)
      BY <1>3, <1>7, <1>11
    <3>2. \A d : four(n + 1, d) <=> w(n + 1, d) /\ w(n, d) /\ w(n - 1, d)
      OBVIOUS
    <3> HIDE DEF four, w
    <3> QED BY <1>11, <3>1, <3>2
  <2> HIDE DEF four, w, a, x
  <2>9. CASE ~Neighbours(a, x)
    <3>1. sequence' = [run |-> 1, dir |-> 0, refused |-> FALSE]
      BY <2>3, <2>9 DEF NewSequence
    <3>2. sequence'.run = 1 /\ sequence'.dir = 0 /\ sequence'.refused = FALSE
      BY <3>1
    <3>3. SequenceKnows'
      BY <1>8, <2>7, <2>9, <3>2
    <3>4. SequenceExact'
      BY <1>6, <2>7, <2>8, <2>9, <3>2
    <3> QED BY <2>3, <3>3, <3>4
  <2>10. CASE Neighbours(a, x)
    <3> DEFINE d == x - a
    <3>1. d \in {-1, 1}
      BY <2>1, <2>10 DEF Neighbours
    <3>2. /\ sequence'.dir = d
          /\ sequence'.run = IF sequence.dir \in {0, d} THEN sequence.run + 1 ELSE 2
          /\ sequence'.refused <=> sequence'.run >= 4
      BY <2>3, <2>10
    <3>3. \A e : w(n + 1, e) <=> e = d
      BY <2>7, <2>10
    <3> HIDE DEF d
    <3>4. CASE sequence.dir = 0
      <4>1. sequence'.run = 2 /\ ~sequence'.refused
        BY <2>5, <3>2, <3>4
      <4>2. n >= 2 => ~w(n, -1) /\ ~w(n, 1)
        BY <2>5, <3>4
      <4>3. SequenceKnows'
        BY <1>8, <1>11, <3>1, <3>2, <3>3, <4>1, <4>2
      <4>4. SequenceExact'
        BY <1>6, <2>8, <4>1, <4>2
      <4> QED BY <2>3, <4>3, <4>4
    <3>5. CASE sequence.dir = d
      <4>1. /\ sequence'.run = sequence.run + 1 /\ sequence.run \in {2, 3}
            /\ n >= sequence.run /\ w(n, d)
            /\ sequence.run = 2 /\ n >= 3 => ~w(n - 1, d)
            /\ sequence.run = 3 => w(n - 1, d)
        BY <2>5, <3>1, <3>2, <3>5
      <4>2. sequence'.refused <=> sequence.run = 3
        BY <3>2, <4>1
      <4>3. SequenceKnows'
        BY <1>8, <3>1, <3>2, <3>3, <4>1, <4>2
      <4>4. SequenceExact'
        BY <1>6, <2>8, <3>1, <3>3, <4>1, <4>2
      <4> QED BY <2>3, <4>3, <4>4
    <3>6. CASE sequence.dir # 0 /\ sequence.dir # d
      <4>1. sequence'.run = 2 /\ ~sequence'.refused
        BY <3>2, <3>6
      <4>2. w(n, sequence.dir)
        BY <2>5, <3>6
      <4>3. ~w(n, d)
        BY <2>6, <3>6, <4>2
      <4>4. SequenceKnows'
        BY <1>8, <1>11, <3>1, <3>2, <3>3, <4>1, <4>3
      <4>5. SequenceExact'
        BY <1>6, <2>8, <3>3, <4>1, <4>3
      <4> QED BY <2>3, <4>4, <4>5
    <3> QED BY <3>4, <3>5, <3>6
  <2> QED BY <2>9, <2>10
<1> QED BY <1>0, <1>9, <1>10, <1>11

-------------------------------------------------------------------------------
(* A step keeps the invariant: a typed character goes through both loops, an
   answer of check-strength leaves them where they are.                      *)
LEMMA TypingKeeps == TypingInv /\ [TypingNext]_typing => TypingInv'
<1> SUFFICES ASSUME TypingInv, [TypingNext]_typing PROVE TypingInv'
  OBVIOUS
<1>1. ASSUME NEW c \in alphabet, Type(c) PROVE TypingInv'
  <2>1. c \in Nat /\ alphabet' = alphabet
    BY <1>1 DEF TypingInv, Word, Type
  <2>2. password' \in Seq(Nat)
    BY <1>1, <2>1 DEF TypingInv, Word, Type
  <2>3. (RepeatKnows /\ RepeatExact)' /\ repeat' \in [run: Nat, refused: BOOLEAN]
    BY <1>1, <2>1, RepeatStep
  <2>4. (SequenceKnows /\ SequenceExact)' /\ sequence' \in [run: Nat, dir: Int, refused: BOOLEAN]
    BY <1>1, <2>1, SequenceStep
  <2>5. Word'
    BY <2>1, <2>2, <2>3, <2>4 DEF TypingInv, Word
  <2> QED BY <2>3, <2>4, <2>5 DEF TypingInv, ScansExact
<1>2. ASSUME UNCHANGED <<alphabet, password, repeat, sequence>> PROVE TypingInv'
  <2>1. Word'
    BY <1>2 DEF TypingInv, Word
  <2>2. lower' = lower
    BY <1>2 DEF lower
  <2>3. (RepeatKnows /\ RepeatExact)'
    BY <1>2, <2>2 DEF TypingInv, ScansExact, RepeatKnows, RepeatExact
  <2>4. SequenceKnows'
    BY <1>2, <2>2 DEF TypingInv, SequenceKnows
  <2>5. SequenceExact'
    BY <1>2, <2>2 DEF TypingInv, ScansExact, SequenceExact
  <2> QED BY <2>1, <2>3, <2>4, <2>5 DEF TypingInv, ScansExact
<1>3. ASSUME NEW enabled, NEW email, NEW breach, CheckStrength(enabled, email, breach)
      PROVE  TypingInv'
  BY <1>2, <1>3 DEF CheckStrength
<1>4. CASE CheckRefused
  BY <1>2, <1>4 DEF CheckRefused
<1>5. CASE UNCHANGED typing
  BY <1>2, <1>5 DEF typing
<1> QED BY <1>1, <1>3, <1>4, <1>5 DEF TypingNext

LEMMA TypingStarts == TypingInit => TypingInv
<1> SUFFICES ASSUME TypingInit PROVE TypingInv
  OBVIOUS
<1>1. Word
  BY AlphabetAssumption DEF TypingInit, Word, NewRepeat, NewSequence
<1>2. Len(password) = 0 /\ password = <<>>
  BY DEF TypingInit
<1>3. RepeatKnows /\ RepeatExact
  BY <1>2 DEF TypingInit, RepeatKnows, RepeatExact, NewRepeat
<1>4. SequenceKnows /\ SequenceExact
  BY <1>2 DEF TypingInit, SequenceKnows, SequenceExact, NewSequence
<1> QED BY <1>1, <1>3, <1>4 DEF TypingInv, ScansExact

LEMMA TypeStep ==
  ASSUME TypingInv, TypingOK, NEW c \in alphabet, Type(c)
  PROVE  TypingOK'
<1>1. /\ alphabet' = alphabet /\ alphabet \in Alphabets /\ answer' = answer
      /\ password' = Append(password, c) /\ password \in Seq(alphabet)
      /\ Len(password) < MaxLength /\ Len(password) \in Nat
  BY DEF Type, TypingOK
<1>2. password' \in Seq(alphabet) /\ Len(password') <= MaxLength
  BY <1>1, LengthAssumption
<1>3. repeat' \in [run: 1..3, refused: BOOLEAN]
  <2> DEFINE prev == lower[Len(password)]
             curr == Lower(c)
  <2>1. repeat' = IF password = <<>> \/ repeat.refused THEN repeat ELSE RepeatRound(prev, curr)
    BY DEF Type
  <2>2. CASE password = <<>> \/ repeat.refused
    BY <2>1, <2>2 DEF TypingOK, REPEAT_MIN_LENGTH
  <2>3. CASE ~(password = <<>> \/ repeat.refused)
    <3>1. repeat.run \in {1, 2}
      BY <2>3 DEF TypingInv, RepeatKnows
    <3> HIDE DEF prev, curr
    <3> QED BY <2>1, <2>3, <3>1 DEF RepeatRound, REPEAT_MIN_LENGTH
  <2> QED BY <2>2, <2>3
<1>4. sequence' \in [run: 1..4, dir: {-1, 0, 1}, refused: BOOLEAN]
  <2> DEFINE prev == lower[Len(password)]
             curr == Lower(c)
  <2>1. sequence' = IF password = <<>> \/ sequence.refused THEN sequence
                    ELSE SequenceRound(prev, curr)
    BY DEF Type
  <2>2. CASE password = <<>> \/ sequence.refused
    BY <2>1, <2>2 DEF TypingOK, SEQUENCE_MIN_LENGTH
  <2>3. CASE ~(password = <<>> \/ sequence.refused)
    <3>1. sequence.run \in {1, 2, 3}
      BY <2>3 DEF TypingInv, SequenceKnows
    <3> HIDE DEF prev, curr
    <3>2. CASE Neighbours(prev, curr)
      <4>1. curr - prev \in {1, -1}
        BY <3>2 DEF Neighbours
      <4> QED BY <2>1, <2>3, <3>1, <3>2, <4>1 DEF SequenceRound, SEQUENCE_MIN_LENGTH
    <3>3. CASE ~Neighbours(prev, curr)
      BY <2>1, <2>3, <3>3 DEF SequenceRound, NewSequence
    <3> QED BY <3>2, <3>3
  <2> QED BY <2>2, <2>3
<1> QED BY <1>1, <1>2, <1>3, <1>4 DEF TypingOK, REPEAT_MIN_LENGTH, SEQUENCE_MIN_LENGTH

(* The loops' variables stay small, however long the password: a run never
   grows past the length at which its loop returns.                          *)
THEOREM TypingCorrect == TypingSpec => []TypingOK
<1>1. TypingInit => TypingOK
  BY LengthAssumption DEF TypingInit, TypingOK, NewRepeat, NewSequence, NoAnswer,
     REPEAT_MIN_LENGTH, SEQUENCE_MIN_LENGTH
<1>2. TypingInv /\ TypingOK /\ [TypingNext]_typing => TypingOK'
  <2> SUFFICES ASSUME TypingInv, TypingOK, [TypingNext]_typing PROVE TypingOK'
    OBVIOUS
  <2>1. ASSUME NEW c \in alphabet, Type(c) PROVE TypingOK'
    BY <2>1, TypeStep
  <2>2. ASSUME NEW enabled, NEW email, NEW breach, CheckStrength(enabled, email, breach)
        PROVE  TypingOK'
    BY <2>2 DEF CheckStrength, TypingOK
  <2>3. CASE CheckRefused
    BY <2>3 DEF CheckRefused, TypingOK
  <2>4. CASE UNCHANGED typing
    BY <2>4 DEF typing, TypingOK
  <2> QED BY <2>1, <2>2, <2>3, <2>4 DEF TypingNext
<1> QED BY <1>1, <1>2, TypingStarts, TypingKeeps, PTL DEF TypingSpec

(* The loops of NoRepeatedChars and NoSequentialChars refuse exactly the
   passwords they are meant to, whatever their length and their characters.  *)
THEOREM LoopsAreExact == TypingSpec => []ScansExact
<1>1. TypingInv => ScansExact
  BY DEF TypingInv
<1> QED BY <1>1, TypingStarts, TypingKeeps, PTL DEF TypingSpec

-------------------------------------------------------------------------------
(* The rows of keys *)

(* Every key of a row is there once. *)
KeysDiffer(row) ==
  /\ row \in Seq(Nat)
  /\ \A n, m \in DOMAIN row : row[n] = row[m] => n = m

(* Of the nine rows this is so.                                             *)
LEMMA RowsKeys == \A row \in KEYBOARD_ROWS : KeysDiffer(row)
<1>1. KeysDiffer(<<49, 50, 51, 52, 53, 54, 55, 56, 57, 48>>)
  BY DEF KeysDiffer
<1>2. KeysDiffer(<<113, 119, 101, 114, 116, 121, 117, 105, 111, 112>>)
  BY DEF KeysDiffer
<1>3. KeysDiffer(<<97, 115, 100, 102, 103, 104, 106, 107, 108>>)
  BY DEF KeysDiffer
<1>4. KeysDiffer(<<122, 120, 99, 118, 98, 110, 109>>)
  BY DEF KeysDiffer
<1>5. KeysDiffer(<<97, 122, 101, 114, 116, 121, 117, 105, 111, 112>>)
  BY DEF KeysDiffer
<1>6. KeysDiffer(<<113, 115, 100, 102, 103, 104, 106, 107, 108, 109>>)
  BY DEF KeysDiffer
<1>7. KeysDiffer(<<119, 120, 99, 118, 98, 110>>)
  BY DEF KeysDiffer
<1>8. KeysDiffer(<<113, 119, 101, 114, 116, 122, 117, 105, 111, 112>>)
  BY DEF KeysDiffer
<1>9. KeysDiffer(<<121, 120, 99, 118, 98, 110, 109>>)
  BY DEF KeysDiffer
<1> HIDE DEF KeysDiffer
<1> QED BY <1>1, <1>2, <1>3, <1>4, <1>5, <1>6, <1>7, <1>8, <1>9 DEF KEYBOARD_ROWS

(* The four characters that start at position i of s lie in row at position
   o and on, read from left to right.                                        *)
LEMMA WindowIn ==
  ASSUME NEW s \in Seq(Nat), NEW seq \in Seq(Nat), NEW i \in 1..(Len(s) - 3)
  PROVE  Includes(seq, SubSeq(s, i, i + 3)) <=>
           \E o \in 0..(Len(seq) - 4) :
             /\ seq[o + 1] = s[i] /\ seq[o + 2] = s[i + 1]
             /\ seq[o + 3] = s[i + 2] /\ seq[o + 4] = s[i + 3]
<1>1. Len(s) \in Nat /\ Len(seq) \in Nat
  OBVIOUS
<1>2. \A j \in i..(i + 3) : s[j] \in Nat
  BY <1>1
<1>3. /\ Len(SubSeq(s, i, i + 3)) = 4
      /\ \A j \in 1..4 : SubSeq(s, i, i + 3)[j] = s[i + j - 1]
  BY <1>1, <1>2
<1> DEFINE t == SubSeq(s, i, i + 3)
<1> HIDE DEF t
<1>4. Includes(seq, t) <=> \E o \in 0..(Len(seq) - 4) : \A j \in 1..4 : seq[o + j] = t[j]
  BY <1>3 DEF Includes, t
<1>5. t[1] = s[i] /\ t[2] = s[i + 1] /\ t[3] = s[i + 2] /\ t[4] = s[i + 3]
  BY <1>1, <1>3 DEF t
<1>6. 1..4 = {1, 2, 3, 4}
  OBVIOUS
<1>7. ASSUME NEW o \in 0..(Len(seq) - 4)
      PROVE  (\A j \in 1..4 : seq[o + j] = t[j]) <=>
               /\ seq[o + 1] = s[i] /\ seq[o + 2] = s[i + 1]
               /\ seq[o + 3] = s[i + 2] /\ seq[o + 4] = s[i + 3]
  BY <1>5, <1>6
<1> QED BY <1>4, <1>7 DEF t

LEMMA ReversedRow ==
  ASSUME NEW row \in Seq(Nat)
  PROVE  /\ Reversed(row) \in Seq(Nat) /\ Len(Reversed(row)) = Len(row)
         /\ \A n \in 1..Len(row) : Reversed(row)[n] = row[Len(row) + 1 - n]
<1>1. Len(row) \in Nat /\ DOMAIN row = 1..Len(row)
  OBVIOUS
<1>2. \A n \in 1..Len(row) : Len(row) + 1 - n \in 1..Len(row)
  BY <1>1
<1>3. Reversed(row) = [n \in 1..Len(row) |-> row[Len(row) + 1 - n]]
  BY <1>1 DEF Reversed
<1>4. \A n \in 1..Len(row) : row[Len(row) + 1 - n] \in Nat
  BY <1>2
<1> QED BY <1>1, <1>3, <1>4

(* Character i + k of s and the one before lie next to each other in row.    *)
Beside(row, d, x, y) == \E n, m \in DOMAIN row : n - m = d /\ row[n] = x /\ row[m] = y

(* Four keys in line, from u on.                                             *)
InLine(row, d, x, y, z, u) ==
  \E m \in 1..Len(row) :
    /\ m + 3 * d \in 1..Len(row)
    /\ row[m] = u /\ row[m + d] = z /\ row[m + 2 * d] = y /\ row[m + 3 * d] = x

(* Three pairs of neighbours on one side are four keys in line, because no
   key is twice in a row.                                                    *)
LEMMA WalkInRow ==
  ASSUME NEW row \in Seq(Nat), NEW d \in {-1, 1}, NEW x, NEW y, NEW z, NEW u, KeysDiffer(row)
  PROVE  Beside(row, d, x, y) /\ Beside(row, d, y, z) /\ Beside(row, d, z, u)
           <=> InLine(row, d, x, y, z, u)
<1>0. DOMAIN row = 1..Len(row) /\ Len(row) \in Nat
  OBVIOUS
<1>1. ASSUME Beside(row, d, x, y), Beside(row, d, y, z), Beside(row, d, z, u)
      PROVE  InLine(row, d, x, y, z, u)
  <2>1. PICK n1, m1 \in 1..Len(row) : n1 - m1 = d /\ row[n1] = x /\ row[m1] = y
    BY <1>0, <1>1 DEF Beside
  <2>2. PICK n2, m2 \in 1..Len(row) : n2 - m2 = d /\ row[n2] = y /\ row[m2] = z
    BY <1>0, <1>1 DEF Beside
  <2>3. PICK n3, m3 \in 1..Len(row) : n3 - m3 = d /\ row[n3] = z /\ row[m3] = u
    BY <1>0, <1>1 DEF Beside
  <2>4. m1 = n2 /\ m2 = n3
    BY <1>0, <2>1, <2>2, <2>3 DEF KeysDiffer
  <2>5. n3 = m3 + d /\ n2 = m3 + 2 * d /\ n1 = m3 + 3 * d
    BY <2>1, <2>2, <2>3, <2>4
  <2> QED BY <2>1, <2>2, <2>3, <2>5 DEF InLine
<1>2. ASSUME NEW m \in 1..Len(row), m + 3 * d \in 1..Len(row), row[m] = u,
             row[m + d] = z, row[m + 2 * d] = y, row[m + 3 * d] = x
      PROVE  Beside(row, d, x, y) /\ Beside(row, d, y, z) /\ Beside(row, d, z, u)
  <2>1. /\ m + d \in DOMAIN row /\ m + 2 * d \in DOMAIN row
        /\ m + 3 * d \in DOMAIN row /\ m \in DOMAIN row
        /\ m + d - m = d /\ (m + 2 * d) - (m + d) = d /\ (m + 3 * d) - (m + 2 * d) = d
    BY <1>0, <1>2
  <2>2. Beside(row, d, z, u)
    BY <1>2, <2>1 DEF Beside
  <2>3. Beside(row, d, y, z)
    BY <1>2, <2>1 DEF Beside
  <2>4. Beside(row, d, x, y)
    <3>1. (m + 3 * d) - (m + 2 * d) = d
      BY <2>1
    <3> QED BY <1>2, <2>1, <3>1 DEF Beside
  <2> QED BY <2>2, <2>3, <2>4
<1> QED BY <1>1, <1>2 DEF InLine

(* A window of four lies in a row or its reverse exactly when it is a walk of
   four keys.                                                                *)
LEMMA WindowIsWalk ==
  ASSUME NEW s \in Seq(Nat), NEW row \in Seq(Nat), KeysDiffer(row), NEW i \in 1..(Len(s) - 3)
  PROVE  (\E seq \in {row, Reversed(row)} : Includes(seq, SubSeq(s, i, i + 3)))
           <=> \E d \in {-1, 1} : \A k \in 0..2 : Beside(row, d, s[i + 3 - k], s[i + 2 - k])
<1> DEFINE L == Len(row)
           line(d) == InLine(row, d, s[i + 3], s[i + 2], s[i + 1], s[i])
<1>0. L \in Nat /\ Len(s) \in Nat
  OBVIOUS
<1>1. 0..2 = {0, 1, 2}
  OBVIOUS
<1>2. Includes(row, SubSeq(s, i, i + 3)) <=> line(1)
  <2>1. Includes(row, SubSeq(s, i, i + 3)) <=>
          \E o \in 0..(L - 4) : /\ row[o + 1] = s[i] /\ row[o + 2] = s[i + 1]
                                /\ row[o + 3] = s[i + 2] /\ row[o + 4] = s[i + 3]
    BY WindowIn
  <2>2. ASSUME NEW o \in 0..(L - 4), row[o + 1] = s[i], row[o + 2] = s[i + 1],
               row[o + 3] = s[i + 2], row[o + 4] = s[i + 3]
        PROVE  line(1)
    <3>1. /\ o + 1 \in 1..L /\ o + 1 + 3 * 1 = o + 4 /\ o + 4 \in 1..L
          /\ o + 1 + 1 = o + 2 /\ o + 1 + 2 * 1 = o + 3
      BY <1>0
    <3> QED BY <2>2, <3>1 DEF InLine
  <2>3. ASSUME NEW m \in 1..L, m + 3 * 1 \in 1..L, row[m] = s[i], row[m + 1] = s[i + 1],
               row[m + 2 * 1] = s[i + 2], row[m + 3 * 1] = s[i + 3]
        PROVE  \E o \in 0..(L - 4) : /\ row[o + 1] = s[i] /\ row[o + 2] = s[i + 1]
                                     /\ row[o + 3] = s[i + 2] /\ row[o + 4] = s[i + 3]
    <3>1. /\ m - 1 \in 0..(L - 4) /\ (m - 1) + 1 = m /\ (m - 1) + 2 = m + 1
          /\ (m - 1) + 3 = m + 2 * 1 /\ (m - 1) + 4 = m + 3 * 1
      BY <1>0, <2>3
    <3> QED BY <2>3, <3>1
  <2> QED BY <2>1, <2>2, <2>3 DEF InLine
<1>3. Includes(Reversed(row), SubSeq(s, i, i + 3)) <=> line(-1)
  <2> DEFINE rev == Reversed(row)
  <2>0. rev \in Seq(Nat) /\ Len(rev) = L /\ \A n \in 1..L : rev[n] = row[L + 1 - n]
    BY ReversedRow
  <2> HIDE DEF rev
  <2>1. Includes(rev, SubSeq(s, i, i + 3)) <=>
          \E o \in 0..(L - 4) : /\ rev[o + 1] = s[i] /\ rev[o + 2] = s[i + 1]
                                /\ rev[o + 3] = s[i + 2] /\ rev[o + 4] = s[i + 3]
    BY <2>0, WindowIn
  <2>2. ASSUME NEW o \in 0..(L - 4), rev[o + 1] = s[i], rev[o + 2] = s[i + 1],
               rev[o + 3] = s[i + 2], rev[o + 4] = s[i + 3]
        PROVE  line(-1)
    <3> DEFINE m == L - o
    <3>1. /\ m \in 1..L /\ m + 3 * (-1) \in 1..L
          /\ m = L + 1 - (o + 1) /\ m + (-1) = L + 1 - (o + 2)
          /\ m + 2 * (-1) = L + 1 - (o + 3) /\ m + 3 * (-1) = L + 1 - (o + 4)
          /\ o + 1 \in 1..L /\ o + 2 \in 1..L /\ o + 3 \in 1..L /\ o + 4 \in 1..L
      BY <1>0
    <3> HIDE DEF m
    <3>2. /\ row[m] = s[i] /\ row[m + (-1)] = s[i + 1]
          /\ row[m + 2 * (-1)] = s[i + 2] /\ row[m + 3 * (-1)] = s[i + 3]
      BY <2>0, <2>2, <3>1
    <3> QED BY <3>1, <3>2 DEF InLine
  <2>3. ASSUME NEW m \in 1..L, m + 3 * (-1) \in 1..L, row[m] = s[i], row[m + (-1)] = s[i + 1],
               row[m + 2 * (-1)] = s[i + 2], row[m + 3 * (-1)] = s[i + 3]
        PROVE  \E o \in 0..(L - 4) : /\ rev[o + 1] = s[i] /\ rev[o + 2] = s[i + 1]
                                     /\ rev[o + 3] = s[i + 2] /\ rev[o + 4] = s[i + 3]
    <3> DEFINE o == L - m
    <3>0. o \in 0..(L - 4) /\ m \in Nat
      BY <1>0, <2>3
    <3>1. /\ m = L + 1 - (o + 1) /\ m + (-1) = L + 1 - (o + 2)
          /\ m + 2 * (-1) = L + 1 - (o + 3) /\ m + 3 * (-1) = L + 1 - (o + 4)
          /\ o + 1 \in 1..L /\ o + 2 \in 1..L /\ o + 3 \in 1..L /\ o + 4 \in 1..L
      BY <1>0, <3>0
    <3> HIDE DEF o
    <3>2. /\ rev[o + 1] = s[i] /\ rev[o + 2] = s[i + 1]
          /\ rev[o + 3] = s[i + 2] /\ rev[o + 4] = s[i + 3]
      BY <2>0, <2>3, <3>1
    <3> QED BY <3>0, <3>2
  <2> QED BY <2>1, <2>2, <2>3 DEF rev, InLine
<1>4. ASSUME NEW d \in {-1, 1}
      PROVE  line(d) <=> \A k \in 0..2 : Beside(row, d, s[i + 3 - k], s[i + 2 - k])
  <2>1. (\A k \in 0..2 : Beside(row, d, s[i + 3 - k], s[i + 2 - k]))
          <=> /\ Beside(row, d, s[i + 3], s[i + 2]) /\ Beside(row, d, s[i + 2], s[i + 1])
              /\ Beside(row, d, s[i + 1], s[i])
    <3>1. /\ i + 3 - 0 = i + 3 /\ i + 2 - 0 = i + 2 /\ i + 3 - 1 = i + 2 /\ i + 2 - 1 = i + 1
          /\ i + 3 - 2 = i + 1 /\ i + 2 - 2 = i
      BY <1>0
    <3> QED BY <1>1, <3>1
  <2>2. line(d) <=> /\ Beside(row, d, s[i + 3], s[i + 2]) /\ Beside(row, d, s[i + 2], s[i + 1])
                    /\ Beside(row, d, s[i + 1], s[i])
    BY WalkInRow
  <2> HIDE DEF line
  <2> QED BY <2>1, <2>2
<1> HIDE DEF line
<1> QED BY <1>2, <1>3, <1>4

(* The windows of NoKeyboardSequence, for every text.                        *)
LEMMA WindowsAreWalks ==
  ASSUME NEW s \in Seq(Nat)
  PROVE  KeyboardSequence(s) <=>
           \E row \in KEYBOARD_ROWS, d \in {-1, 1}, i \in 4..Len(s) :
             \A k \in 0..2 : Beside(row, d, s[i - k], s[i - k - 1])
<1>0. Len(s) \in Nat
  OBVIOUS
<1> DEFINE found(row, i) == \E seq \in {row, Reversed(row)} : Includes(seq, SubSeq(s, i, i + 3))
           walk(row, i) == \E d \in {-1, 1} : \A k \in 0..2 : Beside(row, d, s[i - k], s[i - k - 1])
<1>1. KeyboardSequence(s) <=> \E row \in KEYBOARD_ROWS, i \in 1..(Len(s) - 3) : found(row, i)
  <2>1. Len(s) - KEYBOARD_SEQUENCE_MIN_LENGTH + 1 = Len(s) - 3
    BY <1>0 DEF KEYBOARD_SEQUENCE_MIN_LENGTH
  <2>2. \A i \in 1..(Len(s) - 3) : i + KEYBOARD_SEQUENCE_MIN_LENGTH - 1 = i + 3
    BY DEF KEYBOARD_SEQUENCE_MIN_LENGTH
  <2>3. \A seq : \A i \in 1..(Len(s) - 3) :
          Includes(seq, SubSeq(s, i, i + KEYBOARD_SEQUENCE_MIN_LENGTH - 1))
            <=> Includes(seq, SubSeq(s, i, i + 3))
    BY <2>2
  <2>4. KeyboardSequence(s) <=>
          \E row \in KEYBOARD_ROWS : \E seq \in {row, Reversed(row)} : \E i \in 1..(Len(s) - 3) :
            Includes(seq, SubSeq(s, i, i + KEYBOARD_SEQUENCE_MIN_LENGTH - 1))
    BY <2>1 DEF KeyboardSequence
  <2> QED BY <2>3, <2>4
<1>2. ASSUME NEW row \in KEYBOARD_ROWS, NEW i \in 1..(Len(s) - 3)
      PROVE  found(row, i) <=> walk(row, i + 3)
  <2>1. row \in Seq(Nat) /\ KeysDiffer(row)
    BY RowsKeys DEF KeysDiffer
  <2>2. found(row, i)
          <=> \E d \in {-1, 1} : \A k \in 0..2 : Beside(row, d, s[i + 3 - k], s[i + 2 - k])
    BY <2>1, WindowIsWalk
  <2>3. \A k \in 0..2 : i + 2 - k = i + 3 - k - 1
    BY <1>0
  <2> QED BY <2>2, <2>3
<1> HIDE DEF found, walk
<1>3. (\E row \in KEYBOARD_ROWS, i \in 1..(Len(s) - 3) : found(row, i))
        <=> \E row \in KEYBOARD_ROWS, i \in 4..Len(s) : walk(row, i)
  <2>1. \A i \in 1..(Len(s) - 3) : i + 3 \in 4..Len(s)
    BY <1>0
  <2>2. \A i \in 4..Len(s) : i - 3 \in 1..(Len(s) - 3) /\ (i - 3) + 3 = i
    BY <1>0
  <2>3. ASSUME NEW row \in KEYBOARD_ROWS, NEW i \in 1..(Len(s) - 3), found(row, i)
        PROVE  \E j \in 4..Len(s) : walk(row, j)
    BY <1>2, <2>1, <2>3
  <2>4. ASSUME NEW row \in KEYBOARD_ROWS, NEW i \in 4..Len(s), walk(row, i)
        PROVE  \E j \in 1..(Len(s) - 3) : found(row, j)
    <3> DEFINE j == i - 3
    <3>1. j \in 1..(Len(s) - 3) /\ j + 3 = i
      BY <2>2
    <3> HIDE DEF j
    <3> QED BY <1>2, <2>4, <3>1
  <2> QED BY <2>3, <2>4
<1> QED BY <1>1, <1>3 DEF walk

(* The windows of NoKeyboardSequence find exactly the walks of four keys along
   a row, for a password of any length over any alphabet.                    *)
THEOREM WindowsAreExact == TypingSpec => []KeyboardExact
<1>1. Word => KeyboardExact
  <2> SUFFICES ASSUME Word PROVE KeyboardExact
    OBVIOUS
  <2>1. lower \in Seq(Nat) /\ Len(lower) = Len(password)
    <3>1. DOMAIN password = 1..Len(password) /\ Len(password) \in Nat
      BY DEF Word
    <3>2. lower = [i \in 1..Len(password) |-> Lower(password[i])]
      BY <3>1 DEF lower, LowerCase
    <3>3. \A i \in 1..Len(password) : Lower(password[i]) \in Nat
      <4>1. \A i \in 1..Len(password) : password[i] \in Nat
        BY DEF Word
      <4> QED BY <4>1, LowerNat
    <3> QED BY <3>1, <3>2, <3>3
  <2>2. KeyboardSequence(lower) <=>
          \E row \in KEYBOARD_ROWS, d \in {-1, 1}, i \in 4..Len(password) :
            \A k \in 0..2 : Beside(row, d, lower[i - k], lower[i - k - 1])
    BY <2>1, WindowsAreWalks
  <2> QED BY <2>2 DEF KeyboardExact, Beside
<1>2. TypingInv => KeyboardExact
  BY <1>1 DEF TypingInv
<1> QED BY <1>2, TypingStarts, TypingKeeps, PTL DEF TypingSpec

-------------------------------------------------------------------------------
(* The cache of the settings *)

(* One configuration is active, always.                                      *)
OneRow == \E a \in Configs : Active = {a}

AgreesOn(S) ==
  \A k \in S, c \in Active :
    cache[k] # "absent" => Deserialize(cache[k]) = config[c].columns[k]

(* What a request knows, and what more where nothing else has run beside it:
   the copy it fills the cache from is the active row, and the keys before
   those left agree with it.                                                 *)
Right(q) ==
  /\ q.step = "idle" => q = Idle
  /\ q.step \in {"activateTenant", "activate"} => q.config \in Configs
  /\ q.alone /\ q.step = "fill" => /\ \A c \in Active : q.copy = config[c].columns
                                   /\ AgreesOn(Keys \ q.left)
  /\ q.alone /\ q.step = "refreshed" => Agrees

Lone == \A r, s \in Requests : req[r].alone /\ s # r => At(s, "idle")
Undisturbed == ~disturbed => \A r \in Requests : At(r, "idle") \/ req[r].alone

IInv ==
  /\ TypeOK /\ OneRow
  /\ \A r \in Requests : Right(req[r])
  /\ Lone /\ Undisturbed
  /\ scope = "authora" => ~switched

(* A step of request r.                                                      *)
Own(r) == req' \in [Requests -> Request] /\ \A s \in Requests \ {r} : req'[s] = req[s]

LEMMA GotoOwn ==
  ASSUME TypeOK, NEW r \in Requests, NEW step \in Steps, Goto(r, step)
  PROVE  /\ Own(r) /\ req'[r] = [req[r] EXCEPT !.step = step] /\ req'[r].step = step
         /\ req'[r].alone = req[r].alone /\ req'[r].config = req[r].config
         /\ req'[r].text = req[r].text /\ req'[r].keys = req[r].keys
         /\ req'[r].reads = req[r].reads /\ req'[r].answer = req[r].answer
         /\ req'[r].copy = req[r].copy /\ req'[r].left = req[r].left
<1>1. req[r] \in Request /\ req \in [Requests -> Request]
  BY DEF TypeOK
<1>2. req'[r] = [req[r] EXCEPT !.step = step]
  BY <1>1 DEF Goto
<1>3. req'[r] \in Request
  BY <1>1, <1>2 DEF Request
<1>4. Own(r)
  BY <1>1, <1>3 DEF Own, Goto
<1> QED BY <1>1, <1>2, <1>4 DEF Request

LEMMA IdleTyped ==
  /\ Idle \in Request /\ Idle.step = "idle" /\ Idle.alone = FALSE /\ Idle.reads = FALSE
  /\ Right(Idle)
BY DEF Idle, Request, Blank, Columns, Steps, Ends, Names, Texts, Right

LEMMA DoneOwn ==
  ASSUME TypeOK, NEW r \in Requests, Done(r)
  PROVE  Own(r) /\ req'[r] = Idle
BY IdleTyped DEF TypeOK, Done, Own

(* While r is in flight no other request is alone, and without a disturbance
   there is no other.                                                        *)
LEMMA OthersBeside ==
  ASSUME IInv, NEW r \in Requests, ~At(r, "idle")
  PROVE  /\ \A s \in Requests \ {r} : ~req[s].alone
         /\ ~disturbed => req[r].alone /\ \A s \in Requests \ {r} : req[s] = Idle
<1>1. \A s \in Requests \ {r} : ~req[s].alone
  BY DEF IInv, Lone
<1>2. ASSUME ~disturbed PROVE req[r].alone /\ \A s \in Requests \ {r} : req[s] = Idle
  BY <1>1, <1>2 DEF IInv, Undisturbed, Right, At
<1> QED BY <1>1, <1>2

(* A step need only be looked at from the request that takes it.             *)
LEMMA StepKeeps ==
  ASSUME IInv, NEW r \in Requests, ~At(r, "idle"), Own(r),
         scope' = scope, config' \in [Configs -> Config],
         cache' \in [Keys -> Texts \union {"absent"}],
         switched' \in BOOLEAN, scope = "authora" => ~switched',
         disturbed' \in BOOLEAN, disturbed => disturbed',
         disturbed' \/ req'[r].step = "idle" \/ req'[r].alone = req[r].alone,
         req'[r].alone => req[r].alone,
         OneRow', Right(req[r])'
  PROVE  IInv'
<1>1. TypeOK'
  BY DEF IInv, TypeOK, Own
<1>2. \A s \in Requests : Right(req[s])'
  <2>1. ASSUME NEW s \in Requests \ {r} PROVE Right(req[s])'
    <3>1. req'[s] = req[s] /\ ~req[s].alone /\ Right(req[s])
      BY OthersBeside DEF IInv, Own
    <3> QED BY <3>1 DEF Right, Idle, Blank
  <2> QED BY <2>1
<1>3. Lone'
  <2> SUFFICES ASSUME NEW s \in Requests, NEW t \in Requests, req'[s].alone, t # s
               PROVE  At(t, "idle")'
    BY DEF Lone
  <2>1. s = r
    BY OthersBeside DEF Own
  <2>2. req[r].alone /\ At(t, "idle")
    BY <2>1 DEF IInv, Lone
  <2> QED BY <2>1, <2>2 DEF Own, At
<1>4. Undisturbed'
  <2> SUFFICES ASSUME ~disturbed', NEW s \in Requests
               PROVE  At(s, "idle")' \/ req'[s].alone
    BY DEF Undisturbed
  <2>1. At(s, "idle") \/ req[s].alone
    BY DEF IInv, Undisturbed
  <2>2. req[r].alone
    BY DEF IInv, Undisturbed
  <2> QED BY <2>1, <2>2 DEF Own, At
<1> QED BY <1>1, <1>2, <1>3, <1>4 DEF IInv

(* A step that leaves tables and cache alone. *)
LEMMA ReadKeeps ==
  ASSUME IInv, NEW r \in Requests, ~At(r, "idle"), Own(r),
         UNCHANGED <<scope, config, cache, history>>,
         req'[r].step = "idle" \/ req'[r].alone = req[r].alone,
         req'[r].alone => req[r].alone, Right(req[r])'
  PROVE  IInv'
<1>1. OneRow'
  BY DEF IInv, OneRow, Active
<1>2. /\ scope' = scope /\ config' \in [Configs -> Config]
      /\ cache' \in [Keys -> Texts \union {"absent"}]
      /\ switched' \in BOOLEAN /\ (scope = "authora" => ~switched')
      /\ disturbed' \in BOOLEAN /\ (disturbed => disturbed')
  BY DEF IInv, TypeOK, history
<1> QED BY <1>1, <1>2, StepKeeps

(* A request that starts makes those in flight not alone any more.           *)
LEMMA BeginKeeps ==
  ASSUME IInv, NEW r \in Requests, At(r, "idle"),
         UNCHANGED <<scope, config, cache, switched>>,
         req' \in [Requests -> Request],
         \A s \in Requests \ {r} :
           req'[s] = IF At(s, "idle") THEN req[s] ELSE [req[s] EXCEPT !.alone = FALSE],
         req'[r].alone <=> \A s \in Requests \ {r} : At(s, "idle"),
         disturbed' = (disturbed \/ \E s \in Requests \ {r} : ~At(s, "idle")),
         req'[r].step \notin {"idle", "fill", "refreshed"},
         req'[r].step \in {"activateTenant", "activate"} => req'[r].config \in Configs
  PROVE  IInv'
<1>0. req \in [Requests -> Request] /\ \A s \in Requests : Right(req[s])
  BY DEF IInv, TypeOK
<1>1. TypeOK'
  BY DEF IInv, TypeOK
<1>2. OneRow'
  BY DEF IInv, OneRow, Active
<1>3. ASSUME NEW s \in Requests \ {r}
      PROVE  req'[s].alone = FALSE /\ req'[s].step = req[s].step /\ req'[s].config = req[s].config
             /\ (At(s, "idle") => req'[s] = Idle)
  <2>1. CASE At(s, "idle")
    <3>1. req'[s] = Idle /\ req[s] = Idle
      BY <1>0, <2>1 DEF Right, At
    <3> QED BY <3>1, IdleTyped
  <2>2. CASE ~At(s, "idle")
    BY <1>0, <2>2 DEF Request
  <2> QED BY <2>1, <2>2
<1>4. \A s \in Requests : Right(req[s])'
  <2>1. ASSUME NEW s \in Requests \ {r} PROVE Right(req[s])'
    BY <1>0, <1>3, <2>1 DEF Right, At, Idle, Blank
  <2>2. Right(req[r])'
    BY DEF Right
  <2> QED BY <2>1, <2>2
<1>5. Lone'
  <2> SUFFICES ASSUME NEW s \in Requests, NEW t \in Requests, req'[s].alone, t # s
               PROVE  At(t, "idle")'
    BY DEF Lone
  <2>1. s = r
    BY <1>3
  <2> QED BY <1>3, <2>1 DEF At
<1>6. Undisturbed'
  <2> SUFFICES ASSUME ~disturbed', NEW s \in Requests
               PROVE  At(s, "idle")' \/ req'[s].alone
    BY DEF Undisturbed
  <2>1. ASSUME NEW q \in Requests \ {r} PROVE At(q, "idle")
    OBVIOUS
  <2>2. CASE s = r
    BY <2>1, <2>2
  <2>3. CASE s # r
    BY <1>3, <2>1, <2>3 DEF At
  <2> QED BY <2>2, <2>3
<1>7. (scope = "authora" => ~switched)'
  BY DEF IInv
<1> QED BY <1>1, <1>2, <1>4, <1>5, <1>6, <1>7 DEF IInv

-------------------------------------------------------------------------------
(* What is written reads back, unless it is "1".                             *)
LEMMA ReadsBack ==
  /\ \A b \in BOOLEAN : Serialize(b) \in Texts /\ Serialize(b) # "absent"
                         /\ Deserialize(Serialize(b)) = b
  /\ \A text \in Texts \ {"1"} : text # "absent" /\ Deserialize(text) = Stored(text)
  /\ \A text : Stored(text) \in BOOLEAN
BY DEF Serialize, Deserialize, Texts, Stored

LEMMA ActiveRow ==
  ASSUME IInv, NEW c \in Active
  PROVE  /\ \A d \in Active : d = c
         /\ c \in Configs /\ config[c].columns \in Columns
BY DEF IInv, OneRow, Active, TypeOK, Config

LEMMA StartsEffect ==
  ASSUME TypeOK, NEW r \in Requests, NEW op, NEW q \in Request, Starts(r, op, q)
  PROVE  /\ At(r, "idle")
         /\ req' \in [Requests -> Request]
         /\ \A s \in Requests \ {r} :
              req'[s] = IF At(s, "idle") THEN req[s] ELSE [req[s] EXCEPT !.alone = FALSE]
         /\ req'[r].alone <=> \A s \in Requests \ {r} : At(s, "idle")
         /\ disturbed' = (disturbed \/ \E s \in Requests \ {r} : ~At(s, "idle"))
         /\ switched' = switched
         /\ req'[r].step = q.step /\ req'[r].config = q.config /\ req'[r].text = q.text
         /\ req'[r].keys = q.keys /\ req'[r].reads = q.reads /\ req'[r].answer = q.answer
<1> DEFINE beside == {s \in Requests \ {r} : ~At(s, "idle")}
<1>1. req' = [s \in Requests |-> CASE s = r -> [q EXCEPT !.alone = (beside = {})]
                                   [] s \in beside -> [req[s] EXCEPT !.alone = FALSE]
                                   [] OTHER -> req[s]]
  BY DEF Starts
<1>2. disturbed' = (disturbed \/ beside # {}) /\ switched' = switched /\ At(r, "idle")
  BY DEF Starts
<1>3. beside = {} <=> \A s \in Requests \ {r} : At(s, "idle")
  OBVIOUS
<1>4. req'[r] = [q EXCEPT !.alone = (beside = {})]
  BY <1>1
<1>5. req'[r] \in Request /\ req'[r].alone = (beside = {})
      /\ req'[r].step = q.step /\ req'[r].config = q.config /\ req'[r].text = q.text
      /\ req'[r].keys = q.keys /\ req'[r].reads = q.reads /\ req'[r].answer = q.answer
  BY <1>4 DEF Request
<1>6. ASSUME NEW s \in Requests \ {r}
      PROVE  /\ req'[s] = IF At(s, "idle") THEN req[s] ELSE [req[s] EXCEPT !.alone = FALSE]
             /\ req'[s] \in Request
  <2>1. req'[s] = IF At(s, "idle") THEN req[s] ELSE [req[s] EXCEPT !.alone = FALSE]
    BY <1>1
  <2>2. req[s] \in Request
    BY DEF TypeOK
  <2> QED BY <2>1, <2>2 DEF Request
<1>7. req' \in [Requests -> Request]
  BY <1>1, <1>5, <1>6
<1> HIDE DEF beside
<1>8. req'[r].alone <=> \A s \in Requests \ {r} : At(s, "idle")
  BY <1>3, <1>5
<1>9. disturbed' = (disturbed \/ \E s \in Requests \ {r} : ~At(s, "idle"))
  BY <1>2, <1>3
<1> QED BY <1>2, <1>5, <1>6, <1>7, <1>8, <1>9

LEMMA BeginPreserves ==
  ASSUME IInv, NEW r \in Requests, Begin(r)
  PROVE  IInv'
<1>0. TypeOK
  BY DEF IInv
<1>1. ASSUME NEW name \in ReaderNames, NEW keys \in SUBSET Keys, BeginRead(r, name, keys)
      PROVE  IInv'
  <2> DEFINE hit == \A k \in keys : Cached(name, k) # "absent"
             q == [Idle EXCEPT
                     !.name = name, !.keys = keys, !.reads = TRUE,
                     !.answer = IF hit THEN [k \in Keys |-> k \in keys /\ Deserialize(Cached(name, k))]
                                ELSE Blank,
                     !.step = CASE hit -> "answered"
                                [] ~hit /\ scope = "authora" -> "readActive"
                                [] OTHER -> "findTenant"]
  <2>1. Starts(r, "read", q) /\ UNCHANGED <<scope, config, cache>>
    BY <1>1 DEF BeginRead
  <2>2. q.step \in {"answered", "readActive", "findTenant"} /\ q \in Request
    <3>1. name \in Names
      BY DEF ReaderNames, Names
    <3>2. \A k : (k \in keys /\ Deserialize(Cached(name, k))) \in BOOLEAN
      BY DEF Deserialize
    <3>3. (IF hit THEN [k \in Keys |-> k \in keys /\ Deserialize(Cached(name, k))] ELSE Blank)
            \in [Keys -> BOOLEAN]
      BY <3>2 DEF Blank
    <3>4. (CASE hit -> "answered" [] ~hit /\ scope = "authora" -> "readActive" [] OTHER -> "findTenant")
            \in {"answered", "readActive", "findTenant"}
      OBVIOUS
    <3> HIDE DEF hit
    <3>5. Idle \in Request
      BY IdleTyped
    <3> QED BY <3>1, <3>3, <3>4, <3>5 DEF Request, Steps, Ends, Idle
  <2> HIDE DEF q, hit
  <2>3. /\ At(r, "idle") /\ req' \in [Requests -> Request]
        /\ \A s \in Requests \ {r} :
             req'[s] = IF At(s, "idle") THEN req[s] ELSE [req[s] EXCEPT !.alone = FALSE]
        /\ req'[r].alone <=> \A s \in Requests \ {r} : At(s, "idle")
        /\ disturbed' = (disturbed \/ \E s \in Requests \ {r} : ~At(s, "idle"))
        /\ switched' = switched /\ req'[r].step = q.step /\ req'[r].config = q.config
    BY <1>0, <2>1, <2>2, StartsEffect
  <2>4. /\ req'[r].step \notin {"idle", "fill", "refreshed"}
        /\ req'[r].step \in {"activateTenant", "activate"} => req'[r].config \in Configs
    BY <2>2, <2>3
  <2>5. UNCHANGED <<scope, config, cache, switched>>
    BY <2>1, <2>3
  <2> QED BY <2>3, <2>4, <2>5, BeginKeeps
<1>2. ASSUME NEW k \in Keys, NEW text \in Inputs, BeginSet(r, k, text)
      PROVE  IInv'
  <2> DEFINE q == [Idle EXCEPT
                     !.name = WriterName, !.keys = {k}, !.text = text,
                     !.step = IF scope = "authora" THEN "setActive" ELSE "setTenant"]
  <2>1. Starts(r, "set", q) /\ UNCHANGED <<scope, config, cache>>
    BY <1>2 DEF BeginSet
  <2>2. q.step \in {"setActive", "setTenant"} /\ q \in Request
    BY IdleTyped, InputsAssumption DEF Request, Steps, Names, WriterName, Texts, Idle
  <2> HIDE DEF q
  <2>3. /\ At(r, "idle") /\ req' \in [Requests -> Request]
        /\ \A s \in Requests \ {r} :
             req'[s] = IF At(s, "idle") THEN req[s] ELSE [req[s] EXCEPT !.alone = FALSE]
        /\ req'[r].alone <=> \A s \in Requests \ {r} : At(s, "idle")
        /\ disturbed' = (disturbed \/ \E s \in Requests \ {r} : ~At(s, "idle"))
        /\ switched' = switched /\ req'[r].step = q.step /\ req'[r].config = q.config
    BY <1>0, <2>1, <2>2, StartsEffect
  <2>4. /\ req'[r].step \notin {"idle", "fill", "refreshed"}
        /\ req'[r].step \in {"activateTenant", "activate"} => req'[r].config \in Configs
    BY <2>2, <2>3
  <2>5. UNCHANGED <<scope, config, cache, switched>>
    BY <2>1, <2>3
  <2> QED BY <2>3, <2>4, <2>5, BeginKeeps
<1>3. ASSUME NEW c \in Configs, BeginActivate(r, c)
      PROVE  IInv'
  <2> DEFINE q == [Idle EXCEPT
                     !.name = WriterName, !.config = c,
                     !.step = IF scope = "authora" THEN "activate" ELSE "activateTenant"]
  <2>1. Starts(r, "activate", q) /\ UNCHANGED <<scope, config, cache>>
    BY <1>3 DEF BeginActivate
  <2>2. q.step \in {"activate", "activateTenant"} /\ q \in Request /\ q.config \in Configs
    BY IdleTyped DEF Request, Steps, Names, WriterName, Idle
  <2> HIDE DEF q
  <2>3. /\ At(r, "idle") /\ req' \in [Requests -> Request]
        /\ \A s \in Requests \ {r} :
             req'[s] = IF At(s, "idle") THEN req[s] ELSE [req[s] EXCEPT !.alone = FALSE]
        /\ req'[r].alone <=> \A s \in Requests \ {r} : At(s, "idle")
        /\ disturbed' = (disturbed \/ \E s \in Requests \ {r} : ~At(s, "idle"))
        /\ switched' = switched /\ req'[r].step = q.step /\ req'[r].config = q.config
    BY <1>0, <2>1, <2>2, StartsEffect
  <2>4. /\ req'[r].step \notin {"idle", "fill", "refreshed"}
        /\ req'[r].step \in {"activateTenant", "activate"} => req'[r].config \in Configs
    BY <2>2, <2>3
  <2>5. UNCHANGED <<scope, config, cache, switched>>
    BY <2>1, <2>3
  <2> QED BY <2>3, <2>4, <2>5, BeginKeeps
<1>4. ASSUME Boot(r) PROVE IInv'
  <2> DEFINE q == [Idle EXCEPT !.name = "authora", !.step = "refreshActive"]
  <2>1. Starts(r, "boot", q) /\ UNCHANGED <<scope, config, cache>>
    BY <1>4 DEF Boot
  <2>2. q.step = "refreshActive" /\ q \in Request
    BY IdleTyped DEF Request, Steps, Names, Idle
  <2> HIDE DEF q
  <2> QED BY <1>0, <2>1, <2>2, StartsEffect, BeginKeeps
<1> QED BY <1>1, <1>2, <1>3, <1>4 DEF Begin

(* A handler that goes on to a step that claims nothing yet. *)
LEMMA GotoKeeps ==
  ASSUME IInv, NEW r \in Requests,
         NEW step \in Steps \ {"idle", "activate", "activateTenant", "fill", "refreshed"},
         ~At(r, "idle"), Goto(r, step), UNCHANGED <<scope, config, cache, history>>
  PROVE  IInv'
<1>1. TypeOK
  BY DEF IInv
<1>2. Own(r) /\ req'[r].step = step /\ req'[r].alone = req[r].alone
  BY <1>1, GotoOwn
<1>3. Right(req[r])'
  BY <1>2 DEF Right
<1> QED BY <1>2, <1>3, ReadKeeps

LEMMA DoneKeeps ==
  ASSUME IInv, NEW r \in Requests, ~At(r, "idle"), Done(r),
         UNCHANGED <<scope, config, cache, history>>
  PROVE  IInv'
<1>1. TypeOK
  BY DEF IInv
<1>2. Own(r) /\ req'[r] = Idle
  BY <1>1, DoneOwn
<1>3. Right(req[r])'
  BY <1>2, IdleTyped DEF Right, Idle, Blank
<1> QED BY <1>2, <1>3, IdleTyped, ReadKeeps

(* The rows that a read brings are those of the active configuration. *)
LEMMA ReadsPreserve ==
  ASSUME IInv, NEW r \in Requests,
         FindTenant(r) \/ ReadActive(r) \/ RefreshActive(r) \/ Leave(r) \/ SetTenant(r)
           \/ SetActive(r) \/ ActivateTenant(r) \/ RefreshTenant(r)
  PROVE  IInv'
<1>0. TypeOK /\ req[r] \in Request /\ req \in [Requests -> Request] /\ Right(req[r])
  BY DEF IInv, TypeOK
<1>1. CASE FindTenant(r)
  BY <1>1, GotoKeeps DEF FindTenant, At, Steps, Ends
<1>2. CASE ReadActive(r)
  <2>1. CASE Active = {} /\ Goto(r, "refused")
    BY <1>2, <2>1, GotoKeeps DEF ReadActive, At, Steps, Ends
  <2>2. ASSUME NEW c \in Active,
               req' = [req EXCEPT ![r].answer = [k \in Keys |-> k \in req[r].keys
                                                             /\ config[c].columns[k]],
                             ![r].copy = config[c].columns,
                             ![r].left = IF scope = "tenant" THEN Keys ELSE {},
                             ![r].step = IF scope = "tenant" THEN "fill" ELSE "refreshActive"]
        PROVE  IInv'
    <3>1. config[c].columns \in Columns /\ \A d \in Active : d = c
      BY ActiveRow
    <3>2. [k \in Keys |-> k \in req[r].keys /\ config[c].columns[k]] \in [Keys -> BOOLEAN]
      BY <3>1 DEF Columns
    <3>3. /\ req'[r] \in Request /\ Own(r)
          /\ req'[r].copy = config[c].columns /\ req'[r].alone = req[r].alone
          /\ \/ req'[r].step = "fill" /\ req'[r].left = Keys
             \/ req'[r].step = "refreshActive"
      BY <1>0, <2>2, <3>1, <3>2 DEF Request, Steps, Own
    <3>4. UNCHANGED <<scope, config, cache, history>> /\ ~At(r, "idle")
      BY <1>2 DEF ReadActive, At
    <3>5. Right(req[r])'
      BY <3>1, <3>3, <3>4 DEF Right, AgreesOn, Active
    <3> QED BY <3>3, <3>4, <3>5, ReadKeeps
  <2> QED BY <1>2, <2>1, <2>2 DEF ReadActive
<1>3. CASE RefreshActive(r)
  <2>1. CASE Active = {} /\ Goto(r, "answered")
    BY <1>3, <2>1, GotoKeeps DEF RefreshActive, At, Steps, Ends
  <2>2. ASSUME NEW c \in Active,
               req' = [req EXCEPT ![r].copy = config[c].columns, ![r].left = Keys,
                             ![r].step = "fill"]
        PROVE  IInv'
    <3>1. config[c].columns \in Columns /\ \A d \in Active : d = c
      BY ActiveRow
    <3>3. /\ req'[r] \in Request /\ Own(r)
          /\ req'[r].copy = config[c].columns /\ req'[r].alone = req[r].alone
          /\ req'[r].step = "fill" /\ req'[r].left = Keys
      BY <1>0, <2>2, <3>1 DEF Request, Steps, Own
    <3>4. UNCHANGED <<scope, config, cache, history>> /\ ~At(r, "idle")
      BY <1>3 DEF RefreshActive, At
    <3>5. Right(req[r])'
      BY <3>1, <3>3, <3>4 DEF Right, AgreesOn, Active
    <3> QED BY <3>3, <3>4, <3>5, ReadKeeps
  <2> QED BY <1>3, <2>1, <2>2 DEF RefreshActive
<1>4. CASE Leave(r)
  BY <1>4, DoneKeeps DEF Leave, At, Ends
<1>5. CASE SetTenant(r)
  BY <1>5, GotoKeeps DEF SetTenant, At, Steps, Ends
<1>6. CASE SetActive(r)
  <2>1. CASE Active = {} /\ Goto(r, "refused")
    BY <1>6, <2>1, GotoKeeps DEF SetActive, At, Steps, Ends
  <2>2. ASSUME NEW c \in Active, req' = [req EXCEPT ![r].config = c, ![r].step = "setRow"]
        PROVE  IInv'
    <3>1. req'[r] \in Request /\ Own(r) /\ req'[r].step = "setRow" /\ req'[r].alone = req[r].alone
      BY <1>0, <2>2, ActiveRow DEF Request, Steps, Own
    <3>2. UNCHANGED <<scope, config, cache, history>> /\ ~At(r, "idle")
      BY <1>6 DEF SetActive, At
    <3>3. Right(req[r])'
      BY <3>1 DEF Right
    <3> QED BY <3>1, <3>2, <3>3, ReadKeeps
  <2> QED BY <1>6, <2>1, <2>2 DEF SetActive
<1>7. CASE ActivateTenant(r)
  <2>1. PICK step \in {"activate", "refused"} : Goto(r, step)
    BY <1>7 DEF ActivateTenant
  <2>2. ~At(r, "idle") /\ req[r].config \in Configs /\ UNCHANGED <<scope, config, cache, history>>
    BY <1>0, <1>7 DEF ActivateTenant, Right, At
  <2>3. /\ Own(r)
        /\ req'[r].step = step /\ req'[r].alone = req[r].alone /\ req'[r].config = req[r].config
    BY <1>0, <2>1, GotoOwn DEF Steps, Ends
  <2>4. Right(req[r])'
    BY <2>2, <2>3 DEF Right
  <2> QED BY <2>2, <2>3, <2>4, ReadKeeps
<1>8. CASE RefreshTenant(r)
  BY <1>8, GotoKeeps, DoneKeeps DEF RefreshTenant, At, Steps
<1> QED BY <1>1, <1>2, <1>3, <1>4, <1>5, <1>6, <1>7, <1>8

(* The pipeline writes what the request read; alone, that is the active row. *)
LEMMA FillAgrees ==
  ASSUME IInv, NEW r \in Requests, Fill(r)
  PROVE  /\ Own(r) /\ ~At(r, "idle") /\ cache' \in [Keys -> Texts \union {"absent"}]
         /\ req'[r].alone = req[r].alone /\ req'[r].step \in {"fill", "refreshed"}
         /\ req'[r].reads = req[r].reads /\ req'[r].keys = req[r].keys
         /\ req'[r].answer = req[r].answer
         /\ Right(req[r])'
<1>0. TypeOK /\ req[r] \in Request /\ req \in [Requests -> Request] /\ Right(req[r])
      /\ cache \in [Keys -> Texts \union {"absent"}]
  BY DEF IInv, TypeOK
<1>1. PICK k \in req[r].left :
        /\ \A j \in req[r].left : k <= j
        /\ cache' = [cache EXCEPT ![k] = Serialize(req[r].copy[k])]
        /\ req' = [req EXCEPT ![r].left = @ \ {k},
                              ![r].step = IF req[r].left = {k} THEN "refreshed" ELSE "fill"]
  BY DEF Fill
<1>2. k \in Keys /\ req[r].left \subseteq Keys /\ req[r].copy \in [Keys -> BOOLEAN]
  BY <1>0 DEF Request, Columns
<1>3. /\ Own(r) /\ req'[r].alone = req[r].alone /\ req'[r].copy = req[r].copy
      /\ req'[r].left = req[r].left \ {k}
      /\ req'[r].step = IF req[r].left = {k} THEN "refreshed" ELSE "fill"
      /\ req'[r].reads = req[r].reads /\ req'[r].keys = req[r].keys
      /\ req'[r].answer = req[r].answer
  <2>1. req'[r] = [req[r] EXCEPT !.left = @ \ {k},
                                 !.step = IF req[r].left = {k} THEN "refreshed" ELSE "fill"]
    BY <1>0, <1>1
  <2>2. req'[r] \in Request
    BY <1>0, <2>1 DEF Request, Steps, Ends
  <2>3. Own(r)
    BY <1>0, <1>1, <2>2 DEF Own
  <2> QED BY <1>0, <2>1, <2>3 DEF Request
<1>4. /\ cache' \in [Keys -> Texts \union {"absent"}]
      /\ Deserialize(cache'[k]) = req[r].copy[k]
      /\ \A j \in Keys \ {k} : cache'[j] = cache[j]
  <2>1. Serialize(req[r].copy[k]) \in Texts /\ Deserialize(Serialize(req[r].copy[k])) = req[r].copy[k]
    BY <1>2, ReadsBack
  <2> QED BY <1>0, <1>1, <1>2, <2>1
<1>5. config' = config /\ At(r, "fill")
  BY DEF Fill
<1>6. ASSUME req[r].alone
      PROVE  /\ \A c \in Active : req[r].copy = config[c].columns
             /\ \A j \in Keys \ (req[r].left \ {k}), c \in Active :
                  cache'[j] # "absent" => Deserialize(cache'[j]) = config[c].columns[j]
  <2>1. (\A c \in Active : req[r].copy = config[c].columns) /\ AgreesOn(Keys \ req[r].left)
    BY <1>0, <1>5, <1>6 DEF Right, At
  <2>2. ASSUME NEW j \in Keys \ (req[r].left \ {k}), NEW c \in Active, cache'[j] # "absent"
        PROVE  Deserialize(cache'[j]) = config[c].columns[j]
    <3>1. CASE j = k
      BY <1>4, <2>1, <3>1
    <3>2. CASE j # k
      BY <1>4, <2>1, <2>2, <3>2 DEF AgreesOn
    <3> QED BY <3>1, <3>2
  <2> QED BY <2>1, <2>2
<1>7. Active' = Active
  BY <1>5 DEF Active
<1>8. ASSUME req'[r].alone, req'[r].step = "fill"
      PROVE  (\A c \in Active : req[r].copy = config[c].columns)' /\ AgreesOn(Keys \ req[r].left)'
  BY <1>3, <1>5, <1>6, <1>7, <1>8 DEF AgreesOn
<1>9. ASSUME req'[r].alone, req'[r].step = "refreshed"
      PROVE  Agrees'
  <2>1. req[r].left \ {k} = {}
    BY <1>3, <1>9
  <2> QED BY <1>3, <1>5, <1>6, <1>7, <1>9, <2>1 DEF Agrees
<1>10. Right(req[r])'
  BY <1>3, <1>8, <1>9 DEF Right
<1> QED BY <1>3, <1>4, <1>5, <1>10 DEF At

LEMMA WritesPreserve ==
  ASSUME IInv, NEW r \in Requests,
         Fill(r) \/ SetRow(r) \/ SetCache(r) \/ Activate(r) \/ Abort(r)
  PROVE  IInv'
<1>0. /\ TypeOK /\ req[r] \in Request /\ req \in [Requests -> Request] /\ Right(req[r])
      /\ config \in [Configs -> Config] /\ cache \in [Keys -> Texts \union {"absent"}]
      /\ switched \in BOOLEAN /\ disturbed \in BOOLEAN /\ OneRow
      /\ scope = "authora" => ~switched
  BY DEF IInv, TypeOK
<1>1. CASE Fill(r)
  <2>1. scope' = scope /\ config' = config /\ switched' = switched /\ disturbed' = disturbed
    BY <1>1 DEF Fill, history
  <2>2. OneRow'
    BY <1>0, <2>1 DEF OneRow, Active
  <2> QED BY <1>0, <1>1, <2>1, <2>2, FillAgrees, StepKeeps
<1>2. CASE SetRow(r)
  <2>1. /\ scope' = scope /\ cache' = cache /\ switched' = switched /\ disturbed' = disturbed
        /\ Goto(r, "setCache") /\ ~At(r, "idle")
        /\ config' = [config EXCEPT ![req[r].config].columns =
                        [k \in Keys |-> IF k \in req[r].keys THEN Stored(req[r].text) ELSE @[k]]]
    BY <1>2 DEF SetRow, history, At
  <2>2. config' \in [Configs -> Config] /\ \A c \in Configs : config'[c].active = config[c].active
    <3>1. CASE req[r].config \in Configs
      <4>1. config[req[r].config].columns \in [Keys -> BOOLEAN] /\ config[req[r].config] \in Config
        BY <1>0, <3>1 DEF Config, Columns
      <4>2. [k \in Keys |-> IF k \in req[r].keys THEN Stored(req[r].text)
                            ELSE config[req[r].config].columns[k]] \in Columns
        BY <4>1, ReadsBack DEF Columns
      <4> QED BY <1>0, <2>1, <3>1, <4>1, <4>2 DEF Config
    <3>2. CASE req[r].config \notin Configs
      BY <1>0, <2>1, <3>2
    <3> QED BY <3>1, <3>2
  <2>3. OneRow'
    BY <1>0, <2>2 DEF OneRow, Active
  <2>4. Own(r) /\ req'[r].step = "setCache" /\ req'[r].alone = req[r].alone
    BY <1>0, <2>1, GotoOwn DEF Steps
  <2>5. Right(req[r])'
    BY <2>4 DEF Right
  <2> QED BY <1>0, <2>1, <2>2, <2>3, <2>4, <2>5, StepKeeps
<1>3. CASE SetCache(r)
  <2>1. /\ scope' = scope /\ config' = config /\ switched' = switched /\ disturbed' = disturbed
        /\ Done(r) /\ ~At(r, "idle")
        /\ cache' = [k \in Keys |-> IF k \in req[r].keys THEN req[r].text ELSE cache[k]]
    BY <1>3 DEF SetCache, history, At
  <2>2. cache' \in [Keys -> Texts \union {"absent"}]
    BY <1>0, <2>1 DEF Request
  <2>3. OneRow'
    BY <1>0, <2>1 DEF OneRow, Active
  <2>4. Own(r) /\ req'[r] = Idle
    BY <1>0, <2>1, DoneOwn
  <2>5. Right(req[r])' /\ req'[r].step = "idle" /\ ~req'[r].alone
    BY <2>4, IdleTyped DEF Right, Idle, Blank
  <2> QED BY <1>0, <2>1, <2>2, <2>3, <2>4, <2>5, StepKeeps
<1>4. CASE Activate(r)
  <2> DEFINE next == IF scope = "authora" THEN "refreshActive" ELSE "refreshTenant"
  <2>1. /\ scope' = scope /\ cache' = cache /\ disturbed' = disturbed
        /\ Goto(r, next) /\ ~At(r, "idle") /\ req[r].config \in Configs
        /\ config' = [c \in Configs |-> [config[c] EXCEPT !.active = (c = req[r].config)]]
        /\ switched' = (switched \/ (scope = "tenant" /\ Active # {req[r].config}))
    BY <1>0, <1>4 DEF Activate, At, Right
  <2>2. config' \in [Configs -> Config] /\ Active' = {req[r].config}
    <3>1. \A c \in Configs : config'[c].active = (c = req[r].config) /\ config'[c] \in Config
      BY <1>0, <2>1 DEF Config
    <3> QED BY <2>1, <3>1 DEF Active
  <2>3. OneRow' /\ switched' \in BOOLEAN /\ (scope = "authora" => ~switched')
    BY <1>0, <2>1, <2>2 DEF OneRow
  <2>4. Own(r) /\ req'[r].step = next /\ req'[r].alone = req[r].alone
    BY <1>0, <2>1, GotoOwn DEF Steps
  <2>5. Right(req[r])'
    BY <2>4 DEF Right
  <2> QED BY <1>0, <2>1, <2>2, <2>3, <2>4, <2>5, StepKeeps
<1>5. CASE Abort(r)
  <2>1. /\ scope' = scope /\ config' = config /\ cache' = cache /\ switched' = switched
        /\ disturbed' = TRUE /\ Done(r) /\ ~At(r, "idle")
    BY <1>5 DEF Abort, At
  <2>3. OneRow'
    BY <1>0, <2>1 DEF OneRow, Active
  <2>4. Own(r) /\ req'[r] = Idle
    BY <1>0, <2>1, DoneOwn
  <2>5. Right(req[r])' /\ req'[r].step = "idle" /\ ~req'[r].alone
    BY <2>4, IdleTyped DEF Right, Idle, Blank
  <2> QED BY <1>0, <2>1, <2>3, <2>4, <2>5, StepKeeps
<1> QED BY <1>1, <1>2, <1>3, <1>4, <1>5

(* A key that is gone disagrees with nothing. *)
LEMMA EvictEffect ==
  ASSUME TypeOK, NEW k \in Keys, Evict(k)
  PROVE  /\ UNCHANGED <<scope, config, switched, disturbed, req>>
         /\ cache' \in [Keys -> Texts \union {"absent"}]
         /\ \A j \in Keys : cache'[j] = cache[j] \/ cache'[j] = "absent"
         /\ Active' = Active
         /\ \A S \in SUBSET Keys : AgreesOn(S) => AgreesOn(S)'
         /\ Agrees => Agrees'
<1>1. /\ UNCHANGED <<scope, config, switched, disturbed, req>>
      /\ cache' = [cache EXCEPT ![k] = "absent"]
  BY DEF Evict, history
<1>2. /\ cache' \in [Keys -> Texts \union {"absent"}]
      /\ \A j \in Keys : cache'[j] = cache[j] \/ cache'[j] = "absent"
  BY <1>1 DEF TypeOK
<1>3. Active' = Active
  BY <1>1 DEF Active
<1>4. \A S \in SUBSET Keys : AgreesOn(S) => AgreesOn(S)'
  BY <1>1, <1>2, <1>3 DEF AgreesOn
<1>5. Agrees => Agrees'
  BY <1>1, <1>2, <1>3 DEF Agrees
<1> QED BY <1>1, <1>2, <1>3, <1>4, <1>5

LEMMA EvictPreserves ==
  ASSUME IInv, NEW k \in Keys, Evict(k)
  PROVE  IInv'
<1>0. TypeOK
  BY DEF IInv
<1>1. /\ UNCHANGED <<scope, config, switched, disturbed, req>>
      /\ cache' \in [Keys -> Texts \union {"absent"}] /\ Active' = Active
      /\ \A S \in SUBSET Keys : AgreesOn(S) => AgreesOn(S)'
      /\ Agrees => Agrees'
  BY <1>0, EvictEffect
<1>2. TypeOK' /\ OneRow'
  BY <1>1 DEF IInv, TypeOK, OneRow
<1>3. ASSUME NEW r \in Requests PROVE Right(req[r])'
  <2>1. Right(req[r])
    BY DEF IInv
  <2>2. AgreesOn(Keys \ req[r].left) => AgreesOn(Keys \ req[r].left)'
    BY <1>1 DEF AgreesOn
  <2> QED BY <1>1, <2>1, <2>2 DEF Right, Idle, Blank
<1>4. Lone' /\ Undisturbed' /\ (scope = "authora" => ~switched)'
  BY <1>1 DEF IInv, Lone, Undisturbed, At
<1> QED BY <1>2, <1>3, <1>4 DEF IInv

LEMMA StutterPreserves == IInv /\ UNCHANGED vars => IInv'
<1> SUFFICES ASSUME IInv, UNCHANGED vars PROVE IInv'
  OBVIOUS
<1> QED BY DEF IInv, vars, history, TypeOK, OneRow, Active, Right, AgreesOn, Agrees, Lone,
               Undisturbed, At, Idle, Blank

LEMMA InitHolds == Init => IInv
<1> SUFFICES ASSUME Init PROVE IInv
  OBVIOUS
<1>1. PICK a \in Configs, values \in [Configs -> Columns] :
        config = [c \in Configs |-> [active |-> c = a, columns |-> values[c]]]
  BY DEF Init
<1>2. config \in [Configs -> Config] /\ Active = {a}
  BY <1>1 DEF Config, Active
<1>3. TypeOK
  BY <1>2, IdleTyped DEF Init, TypeOK, Texts
<1>4. \A r \in Requests : req[r] = Idle
  BY DEF Init
<1>5. OneRow /\ \A r \in Requests : Right(req[r])
  BY <1>2, <1>4, IdleTyped DEF OneRow
<1>6. Lone /\ Undisturbed
  BY <1>4, IdleTyped DEF Lone, Undisturbed, At
<1>7. scope = "authora" => ~switched
  BY DEF Init
<1> QED BY <1>3, <1>5, <1>6, <1>7 DEF IInv

LEMMA Invariant == Spec => []IInv
<1>1. IInv /\ [Next]_vars => IInv'
  <2> SUFFICES ASSUME IInv, [Next]_vars PROVE IInv'
    OBVIOUS
  <2>1. ASSUME NEW r \in Requests, Begin(r) \/ Step(r) \/ Abort(r) PROVE IInv'
    BY <2>1, BeginPreserves, ReadsPreserve, WritesPreserve DEF Step
  <2>2. ASSUME NEW k \in Keys, Evict(k) PROVE IInv'
    BY <2>2, EvictPreserves
  <2>3. CASE UNCHANGED vars
    BY <2>3, StutterPreserves
  <2> QED BY <2>1, <2>2, <2>3 DEF Next
<1> QED BY <1>1, InitHolds, PTL DEF Spec

(* The rows, the cache and the requests are well typed, however requests
   overlap and fail: a key never holds what no client wrote.                 *)
THEOREM TypeCorrect == Spec => []TypeOK
<1>1. IInv => TypeOK
  BY DEF IInv
<1> QED BY <1>1, Invariant, PTL

(* Whatever overlapped or failed before, and whatever was sent: a refresh of
   the cache that ran alone leaves every key it finds there agreeing with the
   active configuration (refreshAuthoraCache, refreshTenantCache).           *)
THEOREM RefreshesHeal == Spec => []RefreshHeals
<1>1. IInv => RefreshHeals
  BY DEF IInv, Right, RefreshHeals, At
<1> QED BY <1>1, Invariant, PTL

-------------------------------------------------------------------------------
(* Where nothing has overlapped or failed *)

(* Nobody sends a Boolean setting as "1": the column makes TRUE of it, and the
   text in Redis reads back as false.                                        *)
NoOnes == "1" \notin Inputs

(* The steps of a request that has still to bring the cache up to date.       *)
Open == {"refreshActive", "fill", "setCache"}

Answers(q) == \A k \in q.keys, c \in Active : q.answer[k] = config[c].columns[k]

(* What the one request in flight has seen and what it still owes the cache. *)
Sound(q) ==
  /\ q.step \in {"setTenant", "setActive", "setRow", "setCache"} => q.text # "1"
  /\ q.step = "setRow" => q.config \in Active
  /\ q.step = "setCache" =>
       /\ \A k \in q.keys, c \in Active : config[c].columns[k] = Stored(q.text)
       /\ ~switched => AgreesOn(Keys \ q.keys)
  /\ q.reads /\ scope = "authora" =>
       /\ q.step \in {"readActive", "refreshActive", "fill", "refreshed", "answered"}
       /\ q.step # "readActive" => Answers(q)

(* Only a request on its way to the cache excuses a key that disagrees.      *)
Settled == (~switched /\ \A r \in Requests : req[r].step \notin Open) => Agrees

SerialInv == ~disturbed => Settled /\ \A r \in Requests : Sound(req[r])

(* What a request, or a quiet state, may rely on.                             *)
LEMMA OnlyOne ==
  ASSUME IInv, SerialInv, ~disturbed, NEW r \in Requests
  PROVE  /\ Sound(req[r])
         /\ (~At(r, "idle") \/ Quiet) /\ req[r].step \notin Open /\ ~switched => Agrees
<1>1. Sound(req[r]) /\ Settled
  BY DEF SerialInv
<1>2. ASSUME ~At(r, "idle"), req[r].step \notin Open, ~switched PROVE Agrees
  <2>1. \A s \in Requests \ {r} : req[s].step = "idle"
    BY <1>2, OthersBeside, IdleTyped
  <2> QED BY <1>1, <1>2, <2>1 DEF Settled, Open
<1>3. ASSUME Quiet, ~switched PROVE Agrees
  BY <1>1, <1>3 DEF Settled, Quiet, At, Open
<1> QED BY <1>1, <1>2, <1>3

(* A step of the one request in flight.                                       *)
LEMMA SerialKeeps ==
  ASSUME IInv, NEW r \in Requests, ~At(r, "idle"), Own(r),
         disturbed => disturbed',
         ~disturbed' => Sound(req[r])',
         ~disturbed' /\ ~switched' /\ req'[r].step \notin Open => Agrees'
  PROVE  SerialInv'
<1> SUFFICES ASSUME ~disturbed' PROVE (Settled /\ \A s \in Requests : Sound(req[s]))'
  BY DEF SerialInv
<1>1. \A s \in Requests \ {r} : req'[s] = Idle
  BY OthersBeside DEF Own
<1>2. \A s \in Requests : Sound(req[s])'
  <2>1. ASSUME NEW s \in Requests \ {r} PROVE Sound(req[s])'
    BY <1>1 DEF Sound, Idle
  <2> QED BY <2>1
<1>3. Settled'
  BY DEF Settled
<1> QED BY <1>2, <1>3

(* A step that leaves tables and cache alone. *)
LEMMA SerialReads ==
  ASSUME IInv, SerialInv, NEW r \in Requests, ~At(r, "idle"), Own(r),
         UNCHANGED <<scope, config, cache, history>>,
         req[r].step \notin Open \/ req'[r].step \in Open,
         ~disturbed => Sound(req[r])'
  PROVE  SerialInv'
<1>1. disturbed' = disturbed /\ switched' = switched /\ (Agrees => Agrees')
  BY DEF history, Agrees, Active
<1>2. ASSUME ~disturbed', ~switched', req'[r].step \notin Open PROVE Agrees'
  BY <1>1, <1>2, OnlyOne
<1> QED BY <1>1, <1>2, SerialKeeps

(* A request that starts undisturbed finds everybody idle and the keys settled. *)
LEMMA BeginSerial ==
  ASSUME IInv, SerialInv, NEW r \in Requests, At(r, "idle"),
         UNCHANGED <<scope, config, cache, switched>>,
         \A s \in Requests \ {r} :
           req'[s] = IF At(s, "idle") THEN req[s] ELSE [req[s] EXCEPT !.alone = FALSE],
         disturbed' = (disturbed \/ \E s \in Requests \ {r} : ~At(s, "idle")),
         ~disturbed /\ (~switched => Agrees) => Sound(req[r])'
  PROVE  SerialInv'
<1> SUFFICES ASSUME ~disturbed' PROVE (Settled /\ \A s \in Requests : Sound(req[s]))'
  BY DEF SerialInv
<1>1. ~disturbed /\ \A s \in Requests : At(s, "idle")
  <2>1. ASSUME NEW s \in Requests \ {r} PROVE At(s, "idle")
    OBVIOUS
  <2> QED BY <2>1
<1>2. ~switched => Agrees
  BY <1>1, OnlyOne DEF Quiet, At, Open
<1>3. \A s \in Requests \ {r} : req'[s] = Idle
  BY <1>1 DEF IInv, Right, At
<1>4. \A s \in Requests : Sound(req[s])'
  <2>1. ASSUME NEW s \in Requests \ {r} PROVE Sound(req[s])'
    BY <1>3 DEF Sound, Idle
  <2>2. Sound(req[r])'
    BY <1>1, <1>2
  <2> QED BY <2>1, <2>2
<1>5. (~switched => Agrees)'
  BY <1>2 DEF Agrees, Active
<1> QED BY <1>4, <1>5 DEF Settled

LEMMA BeginsSerial ==
  ASSUME IInv, SerialInv, NoOnes, NEW r \in Requests, Begin(r)
  PROVE  SerialInv'
<1>0. TypeOK /\ (scope = "authora" => ~switched)
  BY DEF IInv
<1>1. ASSUME NEW name \in ReaderNames, NEW keys \in SUBSET Keys, BeginRead(r, name, keys)
      PROVE  SerialInv'
  <2> DEFINE hit == \A k \in keys : Cached(name, k) # "absent"
             got == IF hit THEN [k \in Keys |-> k \in keys /\ Deserialize(Cached(name, k))]
                       ELSE Blank
             step == CASE hit -> "answered"
                       [] ~hit /\ scope = "authora" -> "readActive"
                       [] OTHER -> "findTenant"
             q == [Idle EXCEPT !.name = name, !.keys = keys, !.reads = TRUE,
                               !.answer = got, !.step = step]
  <2>1. Starts(r, "read", q) /\ UNCHANGED <<scope, config, cache>>
    BY <1>1 DEF BeginRead
  <2>2. /\ step \in {"answered", "readActive", "findTenant"}
        /\ step = "answered" => hit
        /\ step = "findTenant" => scope # "authora"
    OBVIOUS
  <2>3. got \in [Keys -> BOOLEAN] /\ name \in Names
    <3>1. \A k : (k \in keys /\ Deserialize(Cached(name, k))) \in BOOLEAN
      BY DEF Deserialize
    <3> QED BY <3>1 DEF Blank, ReaderNames, Names
  <2>4. ASSUME hit, scope = "authora", Agrees, NEW k \in keys, NEW c \in Active
        PROVE  got[k] = config[c].columns[k]
    <3>1. name = "authora" /\ Cached(name, k) = cache[k] /\ cache[k] # "absent"
      BY <2>4 DEF ReaderNames, Cached
    <3>2. got[k] = Deserialize(cache[k])
      <4>1. got[k] = (k \in keys /\ Deserialize(cache[k]))
        BY <2>4, <3>1
      <4> HIDE DEF got, hit
      <4> QED BY <4>1 DEF Deserialize
    <3> QED BY <2>4, <3>1, <3>2 DEF Agrees
  <2> HIDE DEF hit, got, step
  <2>5. /\ q \in Request /\ q.step = step /\ q.keys = keys /\ q.answer = got
    BY <2>2, <2>3, IdleTyped DEF Request, Steps, Ends, Idle
  <2> HIDE DEF q
  <2>6. /\ At(r, "idle")
        /\ \A s \in Requests \ {r} :
             req'[s] = IF At(s, "idle") THEN req[s] ELSE [req[s] EXCEPT !.alone = FALSE]
        /\ disturbed' = (disturbed \/ \E s \in Requests \ {r} : ~At(s, "idle"))
        /\ switched' = switched /\ req'[r].step = step /\ req'[r].keys = keys
        /\ req'[r].answer = got
    BY <1>0, <2>1, <2>5, StartsEffect
  <2>7. ASSUME ~disturbed, ~switched => Agrees PROVE Sound(req[r])'
    <3>1. Active' = Active
      BY <2>1 DEF Active
    <3>2. scope' = "authora" => /\ step \in {"answered", "readActive"}
                                /\ step = "answered" => Answers(req[r])'
      BY <1>0, <2>1, <2>2, <2>4, <2>6, <2>7, <3>1 DEF Answers
    <3> QED BY <2>2, <2>6, <3>2 DEF Sound
  <2> QED BY <2>1, <2>6, <2>7, BeginSerial
<1>2. ASSUME NEW k \in Keys, NEW text \in Inputs, BeginSet(r, k, text)
      PROVE  SerialInv'
  <2> DEFINE q == [Idle EXCEPT
                     !.name = WriterName, !.keys = {k}, !.text = text,
                     !.step = IF scope = "authora" THEN "setActive" ELSE "setTenant"]
  <2>1. Starts(r, "set", q) /\ UNCHANGED <<scope, config, cache>>
    BY <1>2 DEF BeginSet
  <2>2. /\ q.step \in {"setActive", "setTenant"} /\ q \in Request
        /\ q.reads = FALSE /\ q.text # "1"
    BY IdleTyped, InputsAssumption, NoOnes
       DEF Request, Steps, Names, WriterName, Texts, Idle, NoOnes
  <2> HIDE DEF q
  <2>3. /\ At(r, "idle")
        /\ \A s \in Requests \ {r} :
             req'[s] = IF At(s, "idle") THEN req[s] ELSE [req[s] EXCEPT !.alone = FALSE]
        /\ disturbed' = (disturbed \/ \E s \in Requests \ {r} : ~At(s, "idle"))
        /\ switched' = switched /\ req'[r].step = q.step /\ req'[r].text = q.text
        /\ req'[r].reads = q.reads
    BY <1>0, <2>1, <2>2, StartsEffect
  <2>4. Sound(req[r])'
    BY <2>2, <2>3 DEF Sound
  <2> QED BY <2>1, <2>3, <2>4, BeginSerial
<1>3. ASSUME NEW c \in Configs, BeginActivate(r, c)
      PROVE  SerialInv'
  <2> DEFINE q == [Idle EXCEPT
                     !.name = WriterName, !.config = c,
                     !.step = IF scope = "authora" THEN "activate" ELSE "activateTenant"]
  <2>1. Starts(r, "activate", q) /\ UNCHANGED <<scope, config, cache>>
    BY <1>3 DEF BeginActivate
  <2>2. q.step \in {"activate", "activateTenant"} /\ q \in Request /\ q.reads = FALSE
    BY IdleTyped DEF Request, Steps, Names, WriterName, Idle
  <2> HIDE DEF q
  <2>3. /\ At(r, "idle")
        /\ \A s \in Requests \ {r} :
             req'[s] = IF At(s, "idle") THEN req[s] ELSE [req[s] EXCEPT !.alone = FALSE]
        /\ disturbed' = (disturbed \/ \E s \in Requests \ {r} : ~At(s, "idle"))
        /\ switched' = switched /\ req'[r].step = q.step /\ req'[r].reads = q.reads
    BY <1>0, <2>1, <2>2, StartsEffect
  <2>4. Sound(req[r])'
    BY <2>2, <2>3 DEF Sound
  <2> QED BY <2>1, <2>3, <2>4, BeginSerial
<1>4. ASSUME Boot(r) PROVE SerialInv'
  <2> DEFINE q == [Idle EXCEPT !.name = "authora", !.step = "refreshActive"]
  <2>1. Starts(r, "boot", q) /\ UNCHANGED <<scope, config, cache>>
    BY <1>4 DEF Boot
  <2>2. q.step = "refreshActive" /\ q \in Request /\ q.reads = FALSE
    BY IdleTyped DEF Request, Steps, Names, Idle
  <2> HIDE DEF q
  <2>3. /\ At(r, "idle")
        /\ \A s \in Requests \ {r} :
             req'[s] = IF At(s, "idle") THEN req[s] ELSE [req[s] EXCEPT !.alone = FALSE]
        /\ disturbed' = (disturbed \/ \E s \in Requests \ {r} : ~At(s, "idle"))
        /\ switched' = switched /\ req'[r].step = q.step /\ req'[r].reads = q.reads
    BY <1>0, <2>1, <2>2, StartsEffect
  <2>4. Sound(req[r])'
    BY <2>2, <2>3 DEF Sound
  <2> QED BY <2>1, <2>3, <2>4, BeginSerial
<1> QED BY <1>1, <1>2, <1>3, <1>4 DEF Begin

(* A handler that goes on keeps what it has. *)
LEMMA GotoSerial ==
  ASSUME IInv, SerialInv, NEW r \in Requests, NEW step \in Steps, ~At(r, "idle"), Goto(r, step),
         UNCHANGED <<scope, config, cache, history>>,
         req[r].step \notin Open,
         req[r].step \notin {"readActive", "refreshed", "answered"},
         step \notin {"setTenant", "setRow", "setCache"},
         step = "setActive" => req[r].step = "setTenant"
  PROVE  SerialInv'
<1>1. TypeOK
  BY DEF IInv
<1>2. Own(r) /\ req'[r].step = step /\ req'[r].text = req[r].text /\ req'[r].reads = req[r].reads
  BY <1>1, GotoOwn
<1>3. ASSUME ~disturbed PROVE Sound(req[r])'
  <2>1. Sound(req[r])
    BY <1>3, OnlyOne
  <2>2. step = "setActive" => req'[r].text # "1"
    BY <1>2, <2>1 DEF Sound
  <2>3. ~(req'[r].reads /\ scope = "authora")
    BY <1>2, <2>1 DEF Sound, Open
  <2> QED BY <1>2, <2>2, <2>3 DEF Sound
<1> QED BY <1>2, <1>3, SerialReads

LEMMA DoneSerial ==
  ASSUME IInv, SerialInv, NEW r \in Requests, ~At(r, "idle"), Done(r),
         UNCHANGED <<scope, config, cache, history>>, req[r].step \notin Open
  PROVE  SerialInv'
<1>1. TypeOK
  BY DEF IInv
<1>2. Own(r) /\ req'[r] = Idle
  BY <1>1, DoneOwn
<1>3. Sound(req[r])'
  BY <1>2, IdleTyped DEF Sound
<1> QED BY <1>2, <1>3, SerialReads

LEMMA ReadsSerial ==
  ASSUME IInv, SerialInv, NEW r \in Requests,
         FindTenant(r) \/ ReadActive(r) \/ RefreshActive(r) \/ Leave(r) \/ SetTenant(r)
           \/ SetActive(r) \/ ActivateTenant(r) \/ RefreshTenant(r)
  PROVE  SerialInv'
<1>0. /\ TypeOK /\ req[r] \in Request /\ req \in [Requests -> Request]
      /\ ~disturbed => Sound(req[r])
  BY OnlyOne DEF IInv, TypeOK
<1>9. Active # {}
  BY DEF IInv, OneRow
<1>1. CASE FindTenant(r)
  BY <1>1, GotoSerial DEF FindTenant, At, Steps, Ends, Open
<1>2. CASE ReadActive(r)
  <2>1. PICK c \in Active :
               req' = [req EXCEPT ![r].answer = [k \in Keys |-> k \in req[r].keys
                                                             /\ config[c].columns[k]],
                             ![r].copy = config[c].columns,
                             ![r].left = IF scope = "tenant" THEN Keys ELSE {},
                             ![r].step = IF scope = "tenant" THEN "fill" ELSE "refreshActive"]
    BY <1>2, <1>9 DEF ReadActive
  <2>2. config[c].columns \in [Keys -> BOOLEAN] /\ \A d \in Active : d = c
    BY ActiveRow DEF Columns
  <2>3. UNCHANGED <<scope, config, cache, history>> /\ At(r, "readActive")
    BY <1>2 DEF ReadActive
  <2> DEFINE got == [k \in Keys |-> k \in req[r].keys /\ config[c].columns[k]]
  <2>4. got \in [Keys -> BOOLEAN] /\ req[r].keys \subseteq Keys
    BY <1>0, <2>2 DEF Request
  <2>5. \A k \in req[r].keys : got[k] = config[c].columns[k]
    BY <2>2, <2>4
  <2> HIDE DEF got
  <2>6. /\ Own(r) /\ req'[r].step \in {"fill", "refreshActive"}
        /\ req'[r].answer = got /\ req'[r].keys = req[r].keys
    <3>1. /\ req'[r] = [req[r] EXCEPT !.answer = got, !.copy = config[c].columns,
                             !.left = IF scope = "tenant" THEN Keys ELSE {},
                             !.step = IF scope = "tenant" THEN "fill" ELSE "refreshActive"]
          /\ \A s \in Requests \ {r} : req'[s] = req[s]
          /\ req' = [s \in Requests |-> req'[s]]
      BY <1>0, <2>1 DEF got
    <3>2. req'[r] \in Request
      BY <1>0, <2>2, <2>4, <3>1 DEF Request, Steps, Columns
    <3>3. Own(r)
      BY <1>0, <3>1, <3>2 DEF Own
    <3> QED BY <1>0, <3>1, <3>3 DEF Request
  <2>7. Answers(req[r])'
    BY <2>2, <2>3, <2>5, <2>6 DEF Answers, Active
  <2>8. Sound(req[r])'
    BY <2>6, <2>7 DEF Sound
  <2> QED BY <2>3, <2>6, <2>8, SerialReads DEF At, Open
<1>3. CASE RefreshActive(r)
  <2>1. PICK c \in Active :
               req' = [req EXCEPT ![r].copy = config[c].columns, ![r].left = Keys,
                             ![r].step = "fill"]
    BY <1>3, <1>9 DEF RefreshActive
  <2>2. config[c].columns \in Columns
    BY ActiveRow
  <2>3. UNCHANGED <<scope, config, cache, history>> /\ At(r, "refreshActive")
    BY <1>3 DEF RefreshActive
  <2>4. /\ Own(r) /\ req'[r].step = "fill" /\ req'[r].reads = req[r].reads
        /\ req'[r].answer = req[r].answer /\ req'[r].keys = req[r].keys
    BY <1>0, <2>1, <2>2 DEF Request, Steps, Own
  <2>5. ASSUME ~disturbed PROVE Sound(req[r])'
    <3>1. req[r].reads /\ scope = "authora" => Answers(req[r])
      BY <1>0, <2>3, <2>5 DEF Sound, At
    <3>2. req'[r].reads /\ scope' = "authora" => Answers(req[r])'
      BY <2>3, <2>4, <3>1 DEF Answers, Active
    <3> QED BY <2>4, <3>2 DEF Sound
  <2> QED BY <2>3, <2>4, <2>5, SerialReads DEF At, Open
<1>4. CASE Leave(r)
  BY <1>4, DoneSerial DEF Leave, At, Ends, Open
<1>5. CASE SetTenant(r)
  BY <1>5, GotoSerial DEF SetTenant, At, Steps, Ends, Open
<1>6. CASE SetActive(r)
  <2>1. PICK c \in Active : req' = [req EXCEPT ![r].config = c, ![r].step = "setRow"]
    BY <1>6, <1>9 DEF SetActive
  <2>2. /\ Own(r) /\ req'[r].step = "setRow" /\ req'[r].config = c
        /\ req'[r].text = req[r].text /\ req'[r].reads = req[r].reads
    BY <1>0, <2>1, ActiveRow DEF Request, Steps, Own
  <2>3. UNCHANGED <<scope, config, cache, history>> /\ At(r, "setActive")
    BY <1>6 DEF SetActive
  <2>4. ASSUME ~disturbed PROVE Sound(req[r])'
    <3>1. req[r].text # "1" /\ ~(req[r].reads /\ scope = "authora")
      BY <1>0, <2>3, <2>4 DEF Sound, At
    <3>2. c \in Active'
      BY <2>3 DEF Active
    <3> QED BY <2>2, <2>3, <3>1, <3>2 DEF Sound
  <2> QED BY <2>2, <2>3, <2>4, SerialReads DEF At, Open
<1>7. CASE ActivateTenant(r)
  BY <1>7, GotoSerial DEF ActivateTenant, At, Steps, Ends, Open
<1>8. CASE RefreshTenant(r)
  BY <1>8, GotoSerial, DoneSerial DEF RefreshTenant, At, Steps, Open
<1> QED BY <1>1, <1>2, <1>3, <1>4, <1>5, <1>6, <1>7, <1>8

LEMMA WritesSerial ==
  ASSUME IInv, IInv', SerialInv, NEW r \in Requests,
         Fill(r) \/ SetRow(r) \/ SetCache(r) \/ Activate(r) \/ Abort(r)
  PROVE  SerialInv'
<1>0. /\ TypeOK /\ req[r] \in Request /\ req \in [Requests -> Request]
      /\ config \in [Configs -> Config] /\ cache \in [Keys -> Texts \union {"absent"}]
      /\ ~disturbed => Sound(req[r])
  BY OnlyOne DEF IInv, TypeOK
<1>1. CASE Fill(r)
  <2>1. /\ Own(r) /\ ~At(r, "idle") /\ req'[r].alone = req[r].alone
        /\ req'[r].step \in {"fill", "refreshed"} /\ req'[r].reads = req[r].reads
        /\ req'[r].keys = req[r].keys /\ req'[r].answer = req[r].answer /\ Right(req[r])'
    BY <1>1, FillAgrees
  <2>2. /\ scope' = scope /\ config' = config /\ disturbed' = disturbed /\ switched' = switched
        /\ At(r, "fill")
    BY <1>1 DEF Fill, history
  <2>3. ASSUME ~disturbed PROVE Sound(req[r])'
    <3>1. req[r].reads /\ scope = "authora" => Answers(req[r])
      BY <1>0, <2>2, <2>3 DEF Sound, At
    <3>2. req'[r].reads /\ scope' = "authora" => Answers(req[r])'
      BY <2>1, <2>2, <3>1 DEF Answers, Active
    <3> QED BY <2>1, <3>2 DEF Sound
  <2>4. ASSUME ~disturbed, req'[r].step \notin Open PROVE Agrees'
    <3>1. req'[r].alone /\ req'[r].step = "refreshed"
      BY <2>1, <2>4, OthersBeside DEF Open
    <3> QED BY <2>1, <3>1 DEF Right
  <2> QED BY <2>1, <2>2, <2>3, <2>4, SerialKeeps
<1>2. CASE SetRow(r)
  <2>1. /\ scope' = scope /\ cache' = cache /\ switched' = switched /\ disturbed' = disturbed
        /\ Goto(r, "setCache") /\ At(r, "setRow")
        /\ config' = [config EXCEPT ![req[r].config].columns =
                        [k \in Keys |-> IF k \in req[r].keys THEN Stored(req[r].text) ELSE @[k]]]
    BY <1>2 DEF SetRow, history
  <2>2. /\ Own(r) /\ req'[r].step = "setCache" /\ req'[r].text = req[r].text
        /\ req'[r].keys = req[r].keys /\ req'[r].reads = req[r].reads
    BY <1>0, <2>1, GotoOwn DEF Steps
  <2>3. ASSUME ~disturbed PROVE Sound(req[r])'
    <3>1. /\ req[r].text # "1" /\ req[r].config \in Active
          /\ ~(req[r].reads /\ scope = "authora") /\ (~switched => Agrees)
      BY <1>0, <2>1, <2>3, OnlyOne DEF Sound, At, Open
    <3>2. \A c \in Active : c = req[r].config
      BY <3>1, ActiveRow
    <3>3. req[r].config \in Configs /\ config[req[r].config] \in Config /\ req[r].keys \subseteq Keys
      BY <1>0, <3>1 DEF Active, Request
    <3>4. \A k \in Keys : config'[req[r].config].columns[k] =
            IF k \in req[r].keys THEN Stored(req[r].text) ELSE config[req[r].config].columns[k]
      BY <1>0, <2>1, <3>3 DEF Config
    <3>5. Active' = Active
      BY <1>0, <2>1, <3>3 DEF Active, Config
    <3>6. \A k \in req'[r].keys, c \in Active' : config'[c].columns[k] = Stored(req'[r].text)
      BY <2>2, <3>2, <3>3, <3>4, <3>5
    <3>7. ~switched' => AgreesOn(Keys \ req[r].keys)'
      BY <2>1, <2>2, <3>1, <3>2, <3>3, <3>4, <3>5 DEF Agrees, AgreesOn
    <3> QED BY <2>1, <2>2, <3>1, <3>6, <3>7 DEF Sound
  <2> QED BY <2>1, <2>2, <2>3, SerialKeeps DEF At, Open
<1>3. CASE SetCache(r)
  <2>1. /\ scope' = scope /\ config' = config /\ switched' = switched /\ disturbed' = disturbed
        /\ Done(r) /\ At(r, "setCache") /\ ~At(r, "idle")
        /\ cache' = [k \in Keys |-> IF k \in req[r].keys THEN req[r].text ELSE cache[k]]
    BY <1>3 DEF SetCache, history, At
  <2>2. Own(r) /\ req'[r] = Idle
    BY <1>0, <2>1, DoneOwn
  <2>3. Sound(req[r])'
    BY <2>2, IdleTyped DEF Sound
  <2>4. ASSUME ~disturbed, ~switched PROVE Agrees'
    <3>1. /\ req[r].text \in Texts \ {"1"} /\ AgreesOn(Keys \ req[r].keys)
          /\ \A k \in req[r].keys, c \in Active : config[c].columns[k] = Stored(req[r].text)
      BY <1>0, <2>1, <2>4 DEF Sound, At, Request
    <3>2. ASSUME NEW k \in Keys, NEW c \in Active, cache'[k] # "absent"
          PROVE  Deserialize(cache'[k]) = config[c].columns[k]
      <4>1. CASE k \in req[r].keys
        <5>1. cache'[k] = req[r].text
          BY <2>1, <4>1
        <5> QED BY <3>1, <4>1, <5>1, ReadsBack
      <4>2. CASE k \notin req[r].keys
        <5>1. cache'[k] = cache[k]
          BY <2>1, <4>2
        <5> QED BY <3>1, <3>2, <4>2, <5>1 DEF AgreesOn
      <4> QED BY <4>1, <4>2
    <3> QED BY <2>1, <3>2 DEF Agrees, Active
  <2> QED BY <2>1, <2>2, <2>3, <2>4, SerialKeeps
<1>4. CASE Activate(r)
  <2> DEFINE next == IF scope = "authora" THEN "refreshActive" ELSE "refreshTenant"
  <2>1. /\ scope' = scope /\ cache' = cache /\ disturbed' = disturbed
        /\ Goto(r, next) /\ At(r, "activate") /\ ~At(r, "idle")
        /\ config' = [c \in Configs |-> [config[c] EXCEPT !.active = (c = req[r].config)]]
        /\ switched' = (switched \/ (scope = "tenant" /\ Active # {req[r].config}))
    BY <1>4 DEF Activate, At
  <2>2. /\ Own(r) /\ req'[r].step = next /\ req'[r].reads = req[r].reads
    BY <1>0, <2>1, GotoOwn DEF Steps
  <2>3. ASSUME ~disturbed PROVE Sound(req[r])'
    <3>1. ~(req[r].reads /\ scope = "authora")
      BY <1>0, <2>1, <2>3 DEF Sound, At
    <3> QED BY <2>1, <2>2, <3>1 DEF Sound
  <2>4. ASSUME ~disturbed, ~switched', next \notin Open PROVE Agrees'
    <3>1. scope = "tenant"
      BY <1>0, <2>4, ScopesAssumption DEF Open, TypeOK
    <3>2. ~switched /\ Active = {req[r].config} /\ Agrees
      BY <2>1, <2>4, <3>1, OnlyOne DEF At, Open
    <3>3. \A c \in Configs : /\ config'[c].columns = config[c].columns
                             /\ config'[c].active = (c = req[r].config)
      BY <1>0, <2>1 DEF Config
    <3>4. Active' = Active
      BY <2>1, <3>2, <3>3 DEF Active
    <3> QED BY <2>1, <3>2, <3>3, <3>4 DEF Agrees, Active
  <2> QED BY <2>1, <2>2, <2>3, <2>4, SerialKeeps
<1>5. CASE Abort(r)
  BY <1>5 DEF Abort, SerialInv
<1> QED BY <1>1, <1>2, <1>3, <1>4, <1>5

LEMMA EvictSerial ==
  ASSUME IInv, SerialInv, NEW k \in Keys, Evict(k)
  PROVE  SerialInv'
<1>0. TypeOK
  BY DEF IInv
<1>1. /\ UNCHANGED <<scope, config, switched, disturbed, req>> /\ Active' = Active
      /\ \A S \in SUBSET Keys : AgreesOn(S) => AgreesOn(S)'
      /\ Agrees => Agrees'
  BY <1>0, EvictEffect
<1>2. ASSUME NEW r \in Requests, Sound(req[r]) PROVE Sound(req[r])'
  <2>1. AgreesOn(Keys \ req[r].keys) => AgreesOn(Keys \ req[r].keys)'
    BY <1>1 DEF AgreesOn
  <2> QED BY <1>1, <1>2, <2>1 DEF Sound, Answers
<1>3. Settled => Settled'
  BY <1>1 DEF Settled
<1> QED BY <1>1, <1>2, <1>3 DEF SerialInv

LEMMA StutterSerial == SerialInv /\ UNCHANGED vars => SerialInv'
<1> SUFFICES ASSUME SerialInv, UNCHANGED vars PROVE SerialInv'
  OBVIOUS
<1>1. Agrees' = Agrees /\ Active' = Active
  BY DEF vars, Agrees, Active
<1> QED BY <1>1 DEF vars, history, SerialInv, Settled, Sound, AgreesOn, Answers

LEMMA SerialInvariant == Spec => [](NoOnes => SerialInv)
<1>1. Init => (NoOnes => SerialInv)
  <2> SUFFICES ASSUME Init PROVE SerialInv
    OBVIOUS
  <2>1. \A r \in Requests : Sound(req[r])
    BY IdleTyped DEF Init, Sound
  <2>2. Settled
    BY DEF Init, Settled, Agrees
  <2> QED BY <2>1, <2>2 DEF SerialInv
<1>2. IInv /\ IInv' /\ (NoOnes => SerialInv) /\ [Next]_vars => (NoOnes => SerialInv)'
  <2> SUFFICES ASSUME IInv, IInv', NoOnes, SerialInv, [Next]_vars PROVE SerialInv'
    BY DEF NoOnes
  <2>1. ASSUME NEW r \in Requests, Begin(r) \/ Step(r) \/ Abort(r) PROVE SerialInv'
    BY <2>1, BeginsSerial, ReadsSerial, WritesSerial DEF Step
  <2>2. ASSUME NEW k \in Keys, Evict(k) PROVE SerialInv'
    BY <2>2, EvictSerial
  <2>3. CASE UNCHANGED vars
    BY <2>3, StutterSerial
  <2> QED BY <2>1, <2>2, <2>3 DEF Next
<1> QED BY <1>1, <1>2, Invariant, PTL DEF Spec

(* Between requests that did not overlap or fail, what Redis holds reads back
   as the active configuration: set writes the key after the row, an activation
   fills every key anew.                                                     *)
THEOREM CacheTold == Spec => [](NoOnes => CacheAgrees)
<1>1. (NoOnes => SerialInv) => (NoOnes => CacheAgrees)
  BY DEF SerialInv, Settled, CacheAgrees, Quiet, At, Open
<1> QED BY <1>1, SerialInvariant, PTL

(* So a read of Authora's settings answers what the active configuration says,
   from the cache or past it, and is never refused (get and getMany).        *)
THEOREM ReadsAnswerActive == Spec => [](NoOnes => AuthoraReadsSeeActive)
<1>1. SerialInv => AuthoraReadsSeeActive
  <2> SUFFICES ASSUME SerialInv, scope = "authora", ~disturbed, NEW r \in Requests, req[r].reads
               PROVE  /\ ~At(r, "refused")
                      /\ req[r].step \in {"answered", "refreshed"} =>
                           \A k \in req[r].keys, c \in Active : req[r].answer[k] = config[c].columns[k]
    BY DEF AuthoraReadsSeeActive
  <2>1. Sound(req[r])
    BY DEF SerialInv
  <2> QED BY <2>1 DEF Sound, Answers, At
<1> QED BY <1>1, SerialInvariant, PTL
===============================================================================
