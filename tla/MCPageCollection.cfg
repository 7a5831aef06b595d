CONSTANTS
  ItemsPerPage = 3
  Places <- MCPlaces
SPECIFICATION Spec
INVARIANTS
  ItemsSound
  PagesReturned
PROPERTIES
  LoopsEnd
