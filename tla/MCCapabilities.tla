--------------------------- MODULE MCCapabilities ---------------------------
EXTENDS Capabilities

Of(type, persistent) == [type |-> type, persistent |-> persistent]
SoundKinds == {Of("gpt", TRUE), Of("gpt", FALSE), Of("node", FALSE)}
NodeKind == {Of("node", TRUE)}
GptKind == {Of("gpt", TRUE)}
=============================================================================
