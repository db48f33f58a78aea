\* The size tag: every pattern of up to six wrong bits in each of the seven
\* tags.  The codec: four-level modulation, which has the longer frames.
CONSTANTS
  NULL = NULL
  Sizes = 7
  Bits <- MCBits
  TagOf <- MCTags
  Forgiven = 6
  MaxFlips = 6
  Lengths <- MCLengths
  Flags <- MCFlags
  FOUR_LEVEL = TRUE
  CrcOctets = {165}
  Bursts <- MCBursts
  Offsets = {5}
  MaxLength = 4
  Data = {0, 165}
  Behind = {0, 90}
  Callsigns <- MCCallsigns
  Memory <- MCMemory
  Foreign <- MCForeign
  Links <- MCLinks
  CommandSizes <- MCCommandSizes
SPECIFICATION MCSpec
INVARIANTS SizeRecovered FrameFits RoundTrip ChecksumsAgree ControlBlocksSound CallsignsRoundTrip ResentUnchanged CommandsReadBack
PROPERTY FollowsSequence
\* The channel of the size tag stops after MaxFlips flips, and a buffer is
\* full after MaxLength octets.
CHECK_DEADLOCK FALSE
