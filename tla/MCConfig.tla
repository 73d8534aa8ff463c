----------------------------- MODULE MCConfig -----------------------------
EXTENDS Config, TLC

CONSTANTS short, long, exe, system32, p

MCPathLength == short :> 1 @@ long :> 2

Absent == [kind |-> "other"]
MCSection(list) == [root |-> "object", whitelist |-> list]
MCRoot(api, section) == [root |-> "object", api |-> api, servicemanager |-> section]

\* Lists with what they should hold and what they should not, an empty list, and
\* values that are absent or of the wrong kind, and a root that is no object.
MCDocument ==
  {MCRoot(Array(<<NotAString, "", "unknown", "tpm", "tpm">>), MCSection(Array(<<"", NotAString, "dhcp">>))),
   MCRoot(Array(<<>>), MCSection(Absent)),
   MCRoot(Absent, JsonTrue),
   [root |-> "null"]}
=============================================================================
