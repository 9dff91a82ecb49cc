--------------------------- MODULE MCDnstapParser ---------------------------
(* Small instances of DnstapParser for TLC: the documents dnstap-read      *)
(* prints for a question, for answers with addresses, an alias and glue,   *)
(* for an answer with none, for the resolver's own exchange, and for a     *)
(* message with a time the parser cannot read.                             *)
EXTENDS DnstapParser

Printed(type, stamp, records) ==
    <<"label", type, stamp, "client", "other", "question", "name">> \o records
    \o <<"literal", "other">>

MCTexts ==
    {Printed("query", "time", <<>>),
     Printed("response", "time",
               <<"answer", "alias", "address", "address", "other", "address">>),
     Printed("response", "time", <<"other", "alias">>),
     Printed("upstream", "time", <<"answer", "address">>),
     Printed("response", "badtime", <<"answer", "address">>)}
=============================================================================
