SPECIFICATION MCSpec
INVARIANTS
  RaceSlotsSound
  RaceInsertsFound
  
  MicaLookupsSound
  AtomicReadsNotTorn
  RtmSectionsSafe
