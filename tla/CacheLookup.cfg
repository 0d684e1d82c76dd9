CONSTANTS
  Layouts <- SmallLayouts
SPECIFICATION Spec
INVARIANTS FoundIsPresent
PROPERTIES FindsWhatStays
