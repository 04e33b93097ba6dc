--------------------------- MODULE Authentication ---------------------------
(***************************************************************************)
(* Who a request comes from: the middleware of the Express backend,        *)
(* apps/backend/src/middleware/auth.js, as functions of the request and of *)
(* the tokens that are valid at the time.                                  *)
(***************************************************************************)
CONSTANTS
    TestWallet,     \* the wallet of the developer bypass
    Bypass,         \* the two bypass tokens
    MockSignature,  \* what the applications sign with when Keplr is missing
    None            \* absent; Bypass and MockSignature are not

\* A JWT names the wallet it was issued to.
Jwt(wallet) == [wallet |-> wallet]

\* What a client says of itself, in headers or in the body.
Claim(wallet, signature, message) ==
    [wallet |-> wallet, signature |-> signature, message |-> message]

NoClaim == Claim(None, None, None)

Request(token, header, body) ==
    [token |-> token, header |-> header, body |-> body]

Or(a, b) == IF a # None THEN a ELSE b

\* wallet: None if the request is refused; token: the one it is answered.
Answered(wallet, token) == [wallet |-> wallet, token |-> token]
Refused == Answered(None, None)

\* A signature that is not empty is taken for good.
VerifySignature(claim) == claim.signature # None

\* The chain of POST /auth/verify.  An Authorization header decides alone;
\* recent: the message is not older than a day, or this is development.
AuthMiddleware(req, valid, recent) ==
    LET wallet == Or(req.header.wallet, req.body.wallet)
        signature == Or(req.header.signature, req.body.signature)
        message == Or(req.header.message, req.body.message)
    IN
    CASE req.token = Bypass -> Answered(Or(wallet, TestWallet), Bypass)
      [] req.token \notin {None, Bypass} ->
             IF req.token \in valid THEN Answered(req.token.wallet, None)
                                    ELSE Refused
      [] OTHER ->
             IF signature = MockSignature
               THEN Answered(Or(wallet, TestWallet), Bypass)
             ELSE IF \/ None \in {wallet, signature, message}
                     \/ ~ VerifySignature(Claim(wallet, signature, message))
                     \/ ~ recent
               THEN Refused
             ELSE Answered(wallet, Jwt(wallet))

\* The chain of the routes that write.  Only headers count.
RequireAuth(req, valid) ==
    CASE req.token = Bypass -> TestWallet
      [] req.token \notin {None, Bypass} ->
             IF req.token \in valid THEN req.token.wallet ELSE None
      [] OTHER ->
             IF req.header.signature = MockSignature
               THEN Or(req.header.wallet, TestWallet)
             ELSE IF /\ None \notin {req.header.wallet, req.header.signature,
                                     req.header.message}
                     /\ VerifySignature(req.header)
               THEN req.header.wallet
             ELSE None

\* The applications send the token they have stored, and no claims.
FromApp(token) == Request(token, NoClaim, NoClaim)
=============================================================================
