\* Messages of no bytes, of some, of all that fits, and of one too many.
CONSTANTS
  Size = 5
  Messages = {0, 2, 4, 5}
  Rooms = {0, 1, 3, 6}
  MaxBytes = 20
SPECIFICATION IpcFairSpec
INVARIANTS DataRaceFree BytesInOrder CountsExact
PROPERTIES RefinesStream SurvivorsRead SurvivorsWritten
