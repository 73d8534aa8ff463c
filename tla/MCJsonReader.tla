--------------------------- MODULE MCJsonReader ---------------------------
EXTENDS JsonReader

MCName == {"a", ""}
MCScalar == {"scalar"} \cup MCName
=============================================================================
