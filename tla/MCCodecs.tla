------------------------------ MODULE MCCodecs ------------------------------
EXTENDS Codecs

MCMaxInput ==
  [escape |-> 6, decode |-> 6, encode |-> 6, destination |-> 5, frame |-> 16,
   message |-> 12, packet |-> 6, seal |-> 12, backoff |-> 8]
=============================================================================
