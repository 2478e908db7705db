------------------------------- MODULE Guests -------------------------------
(***************************************************************************)
(* Guest access (signaling/guest: http.go, manager.go, guest.go, with the  *)
(* part of signaling/rtm/http.go that uses it): which logon requests get a *)
(* signed request with guest claims, and what the claims, when they come   *)
(* back in an access token of the OpenID provider, allow.  Handlers keep   *)
(* no state between requests, so these are operators.                      *)
(*                                                                         *)
(* A manager has the fields registry (NoClient if there is none),          *)
(* trustedURI, public (the paths the public pattern matches, empty if      *)
(* there is no pattern) and allowGuestOnlyChannels.  A request has the     *)
(* fields post, client, guest, path (with spaces around it or not) and     *)
(* token.                                                                  *)
(***************************************************************************)
EXTENDS Clients

(* No claims, no auth: the request is refused.                             *)
CONSTANT Refused

guestTypeSimple == "1"

(* The signing methods that jwt.GetSigningMethod knows.                    *)
CONSTANT SigningMethods

(* strings.TrimSpace of a path.                                            *)
TrimSpace(path) == path.name

(* The pattern matches; without a pattern nothing is public.               *)
isValidPublicPath(m, path) == path \in m.public

(* The client of a logon request: registered, with a signing method and a  *)
(* default key to sign with.  The empty id is reported at once, but the    *)
(* handler goes on and the lookup refuses it.                              *)
MaySign(m, id) ==
    LET found == Lookup(m.registry, m.trustedURI, id, "", NoOrigin, TRUE) IN
    /\ found.ok
    /\ found.client # NoClient
    /\ found.client.alg \in SigningMethods
    /\ Private(found.client, "") # NoClient

(* MakeHTTPLogonHandler: the guest claims that are signed, or Refused.     *)
Logon(m, req) ==
    LET path == TrimSpace(req.path) IN
    IF /\ req.post
       /\ m.registry # NoClient
       /\ req.guest = guestTypeSimple
       /\ path # ""
       /\ req.token = ""
       /\ isValidPublicPath(m, path)
       /\ MaySign(m, req.client)
    THEN [type |-> req.guest, path |-> path]
    ELSE Refused

(* ApplyRestrictions: the auth of a guest with these claims, NoClaims for  *)
(* a token without any.                                                    *)
CONSTANT NoClaims

ApplyRestrictions(m, claims) ==
    IF claims # NoClaims /\ claims.type # guestTypeSimple THEN Refused
    ELSE [canCreate |-> m.allowGuestOnlyChannels,
          groups |-> IF claims = NoClaims THEN {} ELSE {claims.path}]

(* isRequestWithValidAuth for a guest's bearer token: guest support must   *)
(* be there.                                                               *)
GuestAuth(m, claims) ==
    IF m = NoClient THEN Refused ELSE ApplyRestrictions(m, claims)

=============================================================================
