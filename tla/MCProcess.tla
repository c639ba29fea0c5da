------------------------------- MODULE MCProcess -------------------------------
(****************************************************************************)
(* Process as TLC checks it: the flags the operator is started with.          *)
(****************************************************************************)
EXTENDS Process

Empty == [kind |-> "empty", dots |-> 0, dashes |-> 0]
Unreadable == [kind |-> "unreadable", dots |-> 0, dashes |-> 0]
Punctuated(dots, dashes) == [kind |-> "text", dots |-> dots, dashes |-> dashes]

Plain == [provider |-> "digitalocean", given |-> {"access-key", "region"},
          memory |-> "valid", license |-> Punctuated(2, 0), licenseFile |-> Unreadable]

(* Every provider with all of the clouds' own flags, without any, and with one
   of them missing. *)
CloudFlags == {"region", "zone", "project-id", "subscription-id", "vpc-id",
               "organization-id", "secret-key"}

Clouds ==
    {[Plain EXCEPT !.provider = p, !.given = {"access-key"} \cup g] :
        p \in Documented \cup {"", "other"},
        g \in {{}, CloudFlags} \cup {CloudFlags \ {x} : x \in CloudFlags}}

Memories == {[Plain EXCEPT !.memory = m] : m \in {"empty", "invalid"}}

Keys ==
    {[Plain EXCEPT !.provider = p, !.given = g] :
        p \in {"ec2", "digitalocean"},
        g \in {{}, {"access-key-file"}, {"access-key", "secret-key-file"},
               {"access-key-file", "secret-key-file"}}} \cup
    {[Plain EXCEPT !.provider = "scaleway",
                   !.given = {"access-key", "secret-key-file", "organization-id"}]}

Licenses ==
    {[Plain EXCEPT !.license = l, !.licenseFile = f] :
        l \in {Empty, Punctuated(1, 0), Punctuated(0, 3), Punctuated(0, 4)},
        f \in {Empty, Unreadable, Punctuated(3, 3)}}

CommandLines == Clouds \cup Memories \cup Keys \cup Licenses
==============================================================================
