CONSTANTS
  Calls = {c1, c2}
  Nobody = Nobody
  MaxFaults = 1
  MaxTurns = 1
SPECIFICATION MCSpec
SYMMETRY Symmetry
INVARIANTS TypeOK TwoLiveWereRivals OverIsShown GreetedByName LeadHasOwnFacts
CHECK_DEADLOCK FALSE
