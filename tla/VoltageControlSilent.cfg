SPECIFICATION Spec
CONSTANTS
    N = 3
    Volts <- AroundTheMargin
INVARIANT LowestNotDischarged
