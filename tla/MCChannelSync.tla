---------------------------- MODULE MCChannelSync ----------------------------
(* Small instances of ChannelSync for TLC; the cfg files give the constants.  *)
EXTENDS ChannelSync, TLC

Symmetry ==
    Permutations(Channels) \cup Permutations(Workers) \cup Permutations(Handlers)
      \cup Permutations(Keys) \cup Permutations(Models) \cup Permutations(RemoteIds)
      \cup Permutations(KEKs)
==============================================================================
