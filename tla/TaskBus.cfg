\* Two lanes and a list over one task, two commands cut short at any step.
CONSTANTS
  Tasks = {t1}
  Agents = {a1, a2}
  Readers = {r1}
  MaxCrashes = 2
  NoFile = NoFile
  Nobody = Nobody
SPECIFICATION FairSpec
INVARIANTS TypeOK NoTaskLost OneWinner OwnerIntact ListComplete
PROPERTIES ImplementsQueue CommandsEnd
