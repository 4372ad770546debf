SPECIFICATION Spec
CONSTANT Intervals <- MCIntervals
PROPERTY StopReturns
