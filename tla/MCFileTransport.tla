-------------------------- MODULE MCFileTransport --------------------------
(* Three events of two publishers, or an event beside a command and its    *)
(* outcome; the identities are numbers so that they are ordered.           *)
EXTENDS FileTransport, TLC

CONSTANTS p, q

MCKind == 1 :> "event" @@ 2 :> "event" @@ 3 :> "event" @@ 4 :> "command" @@ 5 :> "outcome"
MCAuthor == 1 :> p @@ 2 :> q @@ 3 :> p @@ 4 :> p @@ 5 :> q
MCCommandOf == 5 :> 4
MCEventsOnly == {1, 2, 3}
MCMixed == {1, 4, 5}
MCWorkloads == {MCEventsOnly, MCMixed}
MCMixedOnly == {MCMixed}
============================================================================
