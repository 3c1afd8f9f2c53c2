-------------------------- MODULE FrequencyControl --------------------------
(***************************************************************************)
(* src/ui/FrequencyControl: the frequency shown, 0 for the placeholder,    *)
(* and what the operator's gestures on it ask for.  The display and its    *)
(* digits always hold the same number and are one variable.                *)
(***************************************************************************)
EXTENDS Integers

CONSTANTS
  DIGIT_STEPS,   \* the steps of stepForIndex, powers of ten up to 1 MHz
  BUTTON_STEPS,  \* the steps of the menu
  MIN_HZ,        \* 1 MHz
  MAX_HZ,        \* 30 MHz
  DEFAULT_HZ     \* 14 MHz

ASSUME FrequencyAssumption ==
  /\ DIGIT_STEPS \subseteq 1..MIN_HZ /\ BUTTON_STEPS \subseteq Nat \ {0}
  /\ MIN_HZ \in Nat \ {0} /\ MAX_HZ \in Nat /\ DEFAULT_HZ \in MIN_HZ..MAX_HZ

VARIABLE shown

\* setFrequency(), setFrequencyHz(): zero shows the placeholder again.
SetFrequency(hz) == shown' = hz

Clamped(hz) == IF hz < MIN_HZ THEN MIN_HZ ELSE IF hz > MAX_HZ THEN MAX_HZ ELSE hz

\* Each operator gives the frequencies that a gesture can ask for.

\* wheelEvent(): the digits below the one scrolled become zero.
Scrolled ==
  IF shown = 0 THEN {}
  ELSE {(Clamped(shown + d * step) \div step) * step : d \in {1, -1}, step \in DIGIT_STEPS}

\* mousePressEvent(): a way out of the placeholder.
Clicked == IF shown = 0 THEN {DEFAULT_HZ} ELSE {}

\* promptForFrequency().
Typed == MIN_HZ..MAX_HZ

\* keyPressEvent() of Return: the number of MHz times 10^6, cut to an integer,
\* may be one less.
Entered == IF shown \in MIN_HZ..MAX_HZ THEN {hz \in {shown, shown - 1} : hz >= MIN_HZ} ELSE {}

\* onStep().
Stepped ==
  IF shown = 0 THEN {}
  ELSE {hz \in {shown + d * step : d \in {1, -1}, step \in BUTTON_STEPS} : hz > 0}
=============================================================================
