------------------------ MODULE MCSerializerOptions ------------------------
(* The constants of SerializerCalls are given in the configuration.        *)
EXTENDS SerializerOptions

CONSTANTS t1
==============================================================================
