---------------------------- MODULE MCPasswordRules ----------------------------
(* PasswordRules over two small alphabets: digits with a neighbour of theirs,
   and letters that meet in the alphabet and in three layouts.               *)
EXTENDS PasswordRules

DigitsAndColon == {54, 55, 56, 57, 58}  \* 6 7 8 9 :
Letters == {118, 119, 120, 89, 99}      \* v w x Y c

Forbids == {"noSequentialChars", "noRepeatedChars", "noKeyboardSequence",
            "noCommonPassword", "noUserInfo"}
\* Each alphabet can meet its own.
OfDigits == {"hasDigit", "hasSpecialChar", "noUserInfo"}
OfLetters == {"hasLowercase", "hasUppercase", "noUserInfo"}

\* w.WXY+789@678.cv
OneEmail == {[local |-> {<<119>>, <<87, 88, 89>>, <<55, 56, 57>>},
              domain |-> << <<54, 55, 56>>, <<99, 118>> >>]}
TwoAlphabets == {DigitsAndColon, Letters}
ThreeChoices == {Forbids, OfDigits, OfLetters}
===============================================================================
