----------------------------- MODULE MCSettings -----------------------------
\* Two actions, four keys, two levels; a voice of each of two kinds.
EXTENDS Settings

MCActions == <<"up", "down">>
MCDefault == [up |-> "w", down |-> "s"]
MCCap == [crate |-> 2, step |-> 1]

=============================================================================
