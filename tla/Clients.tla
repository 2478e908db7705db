------------------------------ MODULE Clients -------------------------------
(***************************************************************************)
(* The registry of clients (clients: registry.go, models.go): how it is    *)
(* made from the entries of the registration file, and how a client and    *)
(* its signing key are looked up.  The registry does not change after it   *)
(* is made, so these are operators; names, secrets and key ids are strings *)
(* of which only the equality counts.  A URI is a record of its text and   *)
(* of the scheme and host url.Parse finds in it; that an origin cannot be  *)
(* parsed, of which Lookup does not take care, is not modelled.            *)
(*                                                                         *)
(* An entry has the fields id, secret, type (application_type), trusted,   *)
(* insecure, origins (a set), keys (jwks, a sequence of records with kid,  *)
(* use and private, or NoClient if the entry has no jwks) and alg          *)
(* (request_object_signing_alg).                                           *)
(***************************************************************************)
EXTENDS Naturals, Sequences, TLC

(* No registration, no key and no trusted URI: nil.                        *)
CONSTANT NoClient

(* The origin of who gives none.                                           *)
NoOrigin == [text |-> "", scheme |-> "", host |-> ""]

ApplicationTypeWeb == "web"

(* Register: an entry without an id or of another type is refused; a later *)
(* one replaces an earlier one of its id.                                  *)
Register(clients, entry) ==
    IF entry.id = "" \/ entry.type \notin {"", ApplicationTypeWeb}
    THEN clients
    ELSE (entry.id :> [entry EXCEPT !.type = ApplicationTypeWeb]) @@ clients

(* NewRegistry: entries that are refused are skipped.                      *)
NewRegistry(conf) ==
    LET upTo[n \in 0 .. Len(conf)] ==
            IF n = 0 THEN <<>> ELSE Register(upTo[n - 1], conf[n])
    IN upTo[Len(conf)]

(* Validate: a given origin must be one of the client's, unless it is      *)
(* insecure and names none; a secret the client has must be given.         *)
Validate(client, secret, origin, withoutSecret) ==
    /\ \/ client.type # ApplicationTypeWeb \/ origin.text = ""
       \/ client.insecure /\ client.origins = {}
       \/ origin.text \in client.origins
    /\ withoutSecret \/ client.secret \in {"", secret}

(* Lookup: whether the client is let in, as whom, and if it is trusted.    *)
(* One that is not registered is let in if its origin has no scheme, or    *)
(* the scheme and host of the trusted URI.                                 *)
Lookup(clients, trustedURI, id, secret, origin, withoutSecret) ==
    LET known == id \in DOMAIN clients
        implicit == /\ trustedURI # NoClient
                    /\ \/ origin.scheme = ""
                       \/ /\ origin.scheme = trustedURI.scheme
                          /\ origin.host = trustedURI.host
    IN
    [ok |-> /\ id # ""
            /\ IF known THEN Validate(clients[id], secret, origin, withoutSecret)
               ELSE implicit,
     client |-> IF known THEN clients[id] ELSE NoClient,
     trusted |-> IF known THEN clients[id].trusted ELSE implicit]

(* findKeyByKid: the one key whatever it is called, or the first of        *)
(* several with the id, "default" if none is given; only a key for         *)
(* signatures will do.                                                     *)
findKeyByKid(client, kid) ==
    LET keys == client.keys
        want == IF kid = "" THEN "default" ELSE kid
        found == IF Len(keys) = 1 THEN keys
                 ELSE SelectSeq(keys, LAMBDA k : k.kid = want)
    IN
    IF keys = NoClient \/ found = <<>> \/ Head(found).use # "sig" THEN NoClient
    ELSE Head(found)

(* Private: the key, if it has a private part.                             *)
Private(client, kid) ==
    LET key == findKeyByKid(client, kid) IN
    IF key = NoClient \/ ~key.private THEN NoClient ELSE key

=============================================================================
