----------------------------- MODULE MCChannels -----------------------------
(* Instances of Channels: a user with two connections and a guest, whose   *)
(* auth is what guest access gives for a logon request, with a group and a *)
(* call channel; a user with two connections and two Channel objects for   *)
(* one group id; a caller and a user who is called on two connections.     *)
EXTENDS Channels, Guests

CONSTANTS c1, c2, c3, u1, u2, group, call, g1, g2, a1

-----------------------------------------------------------------------------
(* Guest access: the registration file, and the guest.                     *)

MCKey(kid, use) == [kid |-> kid, use |-> use, private |-> TRUE]

MCEntry(id, type, keys, alg) ==
    [id |-> id, secret |-> "s", type |-> type, trusted |-> FALSE,
     insecure |-> FALSE, origins |-> {}, keys |-> keys, alg |-> alg]

(* The client is registered again, with several keys, and a third time     *)
(* with a type that is refused.                                            *)
MCConf == <<MCEntry("a", "web", <<MCKey("x", "sig")>>, "RS256"),
            MCEntry("a", "", <<MCKey("x", "enc"), MCKey("default", "sig")>>,
                    "RS256"),
            MCEntry("a", "native", NoClient, "RS256")>>

MCManager(conf) ==
    [registry |-> NewRegistry(conf),
     trustedURI |-> [text |-> "https://x", scheme |-> "https", host |-> "x"],
     public |-> {group}, allowGuestOnlyChannels |-> FALSE]

MCLogon(path, client) ==
    [post |-> TRUE, client |-> client, guest |-> "1",
     path |-> [name |-> path, spaces |-> TRUE], token |-> ""]

Unrestricted == [canCreate |-> TRUE, groups |-> GroupKeys \cup {None}]

MCGuest == GuestAuth(MCManager(MCConf),
                     Logon(MCManager(MCConf), MCLogon(group, "a")))

MCAuth == u1 :> Unrestricted @@ u2 :> MCGuest

MCCallAuth == u1 :> Unrestricted @@ u2 :> Unrestricted

(* Small registration files and requests.                                  *)
MCEntries ==
    {MCEntry(id, type, keys, alg) :
        id \in {"", "a"}, type \in {"", "native"}, alg \in {"RS256", "x"},
        keys \in {NoClient, <<>>, <<MCKey("x", "sig")>>, <<MCKey("x", "enc")>>,
                  <<MCKey("x", "sig"), MCKey("default", "sig")>>,
                  <<MCKey("x", "sig"), MCKey("y", "sig")>>}}

MCConfs == {<<>>} \cup {<<e>> : e \in MCEntries}
               \cup {<<e, f>> : e, f \in MCEntries}

(* The guest logon grants claims for a public path, to a client whose last *)
(* valid entry in the registration file has a signing method and a key for *)
(* signatures, its only key or the first one that is called default, and   *)
(* to nobody else: not to a client that is only trusted for its origin.    *)
ASSUME LogonAgrees ==
    \A conf \in MCConfs, id \in {"", "a", "b"}, path \in {"", group, call} :
        LET valid == {i \in DOMAIN conf : conf[i].id = id /\ conf[i].type = ""}
            last == conf[CHOOSE i \in valid : \A j \in valid : j <= i]
            signs(k) == /\ last.keys[k].use = "sig"
                        /\ \/ Len(last.keys) = 1
                           \/ /\ last.keys[k].kid = "default"
                              /\ \A j \in 1 .. k - 1 :
                                     last.keys[j].kid # "default"
        IN Logon(MCManager(conf), MCLogon(path, id)) # Refused
               <=> /\ path = group /\ id # "" /\ valid # {}
                   /\ last.alg = "RS256" /\ last.keys # NoClient
                   /\ \E k \in DOMAIN last.keys : signs(k)

-----------------------------------------------------------------------------
MCUserOf == c1 :> u1 @@ c2 :> u1 @@ c3 :> u2

MCKeyOf == g1 :> group @@ a1 :> call

(* The two connections of the user are interchangeable.                    *)
MCSymmetry == Permutations({c1, c2})

MCLiveUserOf == c1 :> u1 @@ c2 :> u1

MCLiveKeyOf == g1 :> group @@ g2 :> group

MCCallUserOf == c1 :> u1 @@ c2 :> u2 @@ c3 :> u2

MCCallKeyOf == a1 :> call

=============================================================================
