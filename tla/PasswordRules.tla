------------------------------ MODULE PasswordRules ------------------------------
(***************************************************************************)
(* The rules a new password is checked against: by check-strength while a  *)
(* user types, and by the validators of sign-up, change and reset, which   *)
(* are the same constraints.                                               *)
(*                                                                         *)
(* Two rules are loops over the password that carry a count.  A behaviour  *)
(* types a password character by character, and "repeat" and "sequence"    *)
(* hold the variables of these loops after the last one: a loop over the   *)
(* password so far has gone through the same rounds.  A character is its   *)
(* code.                                                                   *)
(***************************************************************************)
EXTENDS Integers, Sequences

CONSTANTS Alphabets,  \* sets of characters, one of which a password is typed from
          MaxLength,  \* bound: the longest password
          MinLength,  \* the setting PASSWORD_MIN_LENGTH
          Choices,    \* sets of rules that may be switched on together
          Emails,     \* the pieces of an email: local part, and labels of the domain
          NoEmail     \* no email was sent

ASSUME AlphabetAssumption == \A a \in Alphabets : a \subseteq Nat
ASSUME LengthAssumption == MaxLength \in Nat /\ MinLength \in Nat
ASSUME EmailsAssumption == NoEmail \notin Emails

VARIABLES alphabet,  \* what this password is typed from
          password,  \* the characters typed so far
          repeat,    \* NoRepeatedChars: the loop's run, and whether it has returned false
          sequence,  \* NoSequentialChars: run, dir, and whether it has returned false
          answer     \* of check-strength, with what it was asked

typing == <<alphabet, password, repeat, sequence, answer>>

-------------------------------------------------------------------------------
(* Characters *)

Digits == 48..57
Uppercase == 65..90
Lowercase == 97..122
Special == (33..47) \union (58..64) \union (91..96) \union (123..126)

Lower(c) == IF c \in Uppercase THEN c + 32 ELSE c
LowerCase(s) == [i \in DOMAIN s |-> Lower(s[i])]

\* The rules that compare characters compare these.
lower == LowerCase(password)

-------------------------------------------------------------------------------
(* The two loops *)

REPEAT_MIN_LENGTH == 3
SEQUENCE_MIN_LENGTH == 4

NewRepeat == [run |-> 1, refused |-> FALSE]
NewSequence == [run |-> 1, dir |-> 0, refused |-> FALSE]

\* One round of the loop of NoRepeatedChars.
RepeatRound(prev, curr) ==
  LET run == IF curr = prev THEN repeat.run + 1 ELSE 1
  IN  [run |-> run, refused |-> run >= REPEAT_MIN_LENGTH]

Neighbours(prev, curr) ==
  /\ {prev, curr} \subseteq Lowercase \/ {prev, curr} \subseteq Digits
  /\ curr - prev \in {1, -1}

\* Mutant: a change of direction counts its characters from one.
SequenceRoundLate(prev, curr) ==
  LET dir == curr - prev
      run == IF sequence.dir \in {0, dir} THEN sequence.run + 1 ELSE 1
  IN  IF Neighbours(prev, curr)
      THEN [run |-> run, dir |-> dir, refused |-> run >= SEQUENCE_MIN_LENGTH]
      ELSE NewSequence

\* One round of the loop of NoSequentialChars.
SequenceRound(prev, curr) ==
  LET dir == curr - prev
      run == IF sequence.dir \in {0, dir} THEN sequence.run + 1 ELSE 2
  IN  IF Neighbours(prev, curr)
      THEN [run |-> run, dir |-> dir, refused |-> run >= SEQUENCE_MIN_LENGTH]
      ELSE NewSequence

-------------------------------------------------------------------------------
(* The rules that look at the whole password *)

KEYBOARD_SEQUENCE_MIN_LENGTH == 4

KEYBOARD_ROWS ==
  { <<49, 50, 51, 52, 53, 54, 55, 56, 57, 48>>,            \* 1234567890
    <<113, 119, 101, 114, 116, 121, 117, 105, 111, 112>>,  \* qwertyuiop
    <<97, 115, 100, 102, 103, 104, 106, 107, 108>>,        \* asdfghjkl
    <<122, 120, 99, 118, 98, 110, 109>>,                   \* zxcvbnm
    <<97, 122, 101, 114, 116, 121, 117, 105, 111, 112>>,   \* azertyuiop
    <<113, 115, 100, 102, 103, 104, 106, 107, 108, 109>>,  \* qsdfghjklm
    <<119, 120, 99, 118, 98, 110>>,                        \* wxcvbn
    <<113, 119, 101, 114, 116, 122, 117, 105, 111, 112>>,  \* qwertzuiop
    <<121, 120, 99, 118, 98, 110, 109>> }                  \* yxcvbnm

Reversed(s) == [i \in DOMAIN s |-> s[Len(s) + 1 - i]]

\* s.includes(t).
Includes(s, t) ==
  \E i \in 0..(Len(s) - Len(t)) : \A j \in 1..Len(t) : s[i + j] = t[j]

\* Mutant: rows are read from left to right only.
KeyboardSequenceForward(s) ==
  \E row \in KEYBOARD_ROWS : \E i \in 1..(Len(s) - KEYBOARD_SEQUENCE_MIN_LENGTH + 1) :
    Includes(row, SubSeq(s, i, i + KEYBOARD_SEQUENCE_MIN_LENGTH - 1))

\* Some four characters in a row are part of a row of keys, or of its reverse.
KeyboardSequence(s) ==
  \E row \in KEYBOARD_ROWS : \E seq \in {row, Reversed(row)} :
    \E i \in 1..(Len(s) - KEYBOARD_SEQUENCE_MIN_LENGTH + 1) :
      Includes(seq, SubSeq(s, i, i + KEYBOARD_SEQUENCE_MIN_LENGTH - 1))

USER_INFO_MIN_LENGTH == 3

\* The last label of a domain does not count, if there are others.
UserInfo(s, email) ==
  \E part \in email.local \union
       (IF Len(email.domain) > 1
        THEN {email.domain[i] : i \in 1..(Len(email.domain) - 1)} ELSE {}) :
    Len(part) >= USER_INFO_MIN_LENGTH /\ Includes(s, LowerCase(part))

Rules == {"hasDigit", "hasSpecialChar", "hasLowercase", "hasUppercase",
          "noSequentialChars", "noRepeatedChars", "noKeyboardSequence",
          "noCommonPassword", "noUserInfo"}
\* Breaches: the service lists the password, does not, or gives no answer (no
\* response within five seconds, or one that is not "ok").
Breaches == {"listed", "unlisted", "failed"}

Has(set) == \E i \in 1..Len(password) : password[i] \in set

HasDigit == Has(Digits)
HasLowercase == Has(Lowercase)
HasUppercase == Has(Uppercase)
HasSpecialChar == Has(Special)
HasMinLength == Len(password) >= MinLength
NoUserInfo(email) == email = NoEmail \/ ~UserInfo(lower, email)

\* A service that fails accepts the password.
NoCommonPassword(breach) == breach # "listed"

\* What each rule refuses when it is switched on.
Refuses(rule, email, breach) ==
  CASE rule = "hasDigit"           -> ~HasDigit
    [] rule = "hasSpecialChar"     -> ~HasSpecialChar
    [] rule = "hasLowercase"       -> ~HasLowercase
    [] rule = "hasUppercase"       -> ~HasUppercase
    [] rule = "noSequentialChars"  -> sequence.refused
    [] rule = "noRepeatedChars"    -> repeat.refused
    [] rule = "noKeyboardSequence" -> KeyboardSequence(lower)
    [] rule = "noCommonPassword"   -> ~NoCommonPassword(breach)
    [] rule = "noUserInfo"         -> ~NoUserInfo(email)

\* Of the rules switched on, and the length that is always asked for.
Errors(rules, enabled, email, breach) ==
  {rule \in rules \intersect enabled : Refuses(rule, email, breach)}
    \union (IF HasMinLength THEN {} ELSE {"hasMinLength"})

-------------------------------------------------------------------------------
(* Specification *)

NoAnswer == [status |-> "none"]

TypingInit ==
  /\ alphabet \in Alphabets
  /\ password = <<>>
  /\ repeat = NewRepeat
  /\ sequence = NewSequence
  /\ answer = NoAnswer

\* A loop that has returned false is not gone on with.
Type(c) ==
  /\ answer.status = "none"
  /\ Len(password) < MaxLength
  /\ LET prev == lower[Len(password)]
         curr == Lower(c)
     IN  /\ repeat' = IF password = <<>> \/ repeat.refused THEN repeat
                      ELSE RepeatRound(prev, curr)
         /\ sequence' = IF password = <<>> \/ sequence.refused THEN sequence
                        ELSE SequenceRound(prev, curr)
  /\ password' = Append(password, c)
  /\ UNCHANGED <<alphabet, answer>>

\* The _constraints of the controller, each awaited.
Constraints == Rules \ {"noUserInfo"}

(* With an email the controller calls noUserInfo as well and does not await it:
   it tests the promise, an object, which is never false.                    *)
Promise(result) == [kind |-> "promise", resolvesTo |-> result]
Falsy(value) == value.kind = "boolean" /\ ~value.is

UserInfoErrors(email) ==
  IF email # NoEmail /\ Falsy(Promise(NoUserInfo(email))) THEN {"noUserInfo"} ELSE {}

CheckStrength(enabled, email, breach) ==
  /\ answer.status = "none"
  /\ password # <<>>
  /\ LET errors == Errors(Constraints, enabled, email, breach) \union UserInfoErrors(email)
     IN  answer' = [status |-> IF errors = {} THEN "valid" ELSE "invalid", errors |-> errors,
                    enabled |-> enabled, email |-> email]
  /\ UNCHANGED <<alphabet, password, repeat, sequence>>

\* A setting is not in Redis: the rules name no tenant, and none has that slug.
CheckRefused ==
  /\ answer.status = "none"
  /\ password # <<>>
  /\ answer' = [status |-> "notFound"]
  /\ UNCHANGED <<alphabet, password, repeat, sequence>>

TypingNext ==
  \/ \E c \in alphabet : Type(c)
  \/ \E enabled \in Choices, email \in Emails \union {NoEmail}, breach \in Breaches :
       CheckStrength(enabled, email, breach)
  \/ CheckRefused

TypingSpec == TypingInit /\ [][TypingNext]_typing

-------------------------------------------------------------------------------
(* Properties *)

TypingOK ==
  /\ alphabet \in Alphabets
  /\ password \in Seq(alphabet) /\ Len(password) <= MaxLength
  /\ repeat \in [run: 1..REPEAT_MIN_LENGTH, refused: BOOLEAN]
  /\ sequence \in [run: 1..SEQUENCE_MIN_LENGTH, dir: {-1, 0, 1}, refused: BOOLEAN]
  /\ answer.status \in {"none", "valid", "invalid", "notFound"}

(* The loop of NoRepeatedChars refuses exactly the passwords in which some
   character stands three times in a row, whatever its case.                 *)
RepeatExact ==
  repeat.refused <=>
    \E i \in 3..Len(password) : lower[i] = lower[i - 1] /\ lower[i] = lower[i - 2]

(* The loop of NoSequentialChars refuses exactly the passwords with four
   characters in a row, all letters or all digits, that go up by one or go
   down by one all the way: a turn in the middle or a neighbour of another
   kind ("@", next to "A"; ":", next to "9") starts it afresh.               *)
SequenceExact ==
  sequence.refused <=>
    \E i \in 4..Len(password), d \in {-1, 1} :
      /\ \A k \in 0..2 : lower[i - k] - lower[i - k - 1] = d
      /\ \/ \A k \in 0..3 : lower[i - k] \in Lowercase
         \/ \A k \in 0..3 : lower[i - k] \in Digits

(* Both loops.  A password is judged as written, however long it is.         *)
ScansExact == RepeatExact /\ SequenceExact

(* The windows of NoKeyboardSequence find exactly the walks of four keys along
   one row of one layout, each next to the one before on the same side.      *)
KeyboardExact ==
  KeyboardSequence(lower) <=>
    \E row \in KEYBOARD_ROWS, d \in {-1, 1}, i \in 4..Len(password) :
      \A k \in 0..2 : \E n, m \in DOMAIN row :
        n - m = d /\ row[n] = lower[i - k] /\ row[m] = lower[i - k - 1]
===============================================================================
