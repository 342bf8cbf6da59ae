SPECIFICATION TypingSpec
CONSTANTS
  Alphabets <- TwoAlphabets
  MaxLength = 5
  MinLength = 2
  Choices <- ThreeChoices
  Emails <- OneEmail
  NoEmail = NoEmail
INVARIANTS ScansExact KeyboardExact
CHECK_DEADLOCK FALSE
