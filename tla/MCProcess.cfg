SPECIFICATION Spec
INVARIANTS
  OwnResults RetrySafe HeldExactly AcceptedStored UsedWhileOpen 
PROPERTIES ViewAdvances GateOpensOnPolicy
