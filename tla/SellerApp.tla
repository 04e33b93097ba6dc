----------------------------- MODULE SellerApp ------------------------------
(***************************************************************************)
(* The seller application, apps/admin, in one tab, with the routes of the  *)
(* backend it calls: the login, the form for a new auction with its image  *)
(* upload, the list of the seller's auctions, and the page that closes     *)
(* one.  A call is sent with the token stored at that moment; its          *)
(* continuation runs after the page is left too, and not after the         *)
(* document is loaded again.                                               *)
(***************************************************************************)
EXTENDS Integers, Sequences, FiniteSets

CONSTANTS
    Accounts,                                \* accounts of the Keplr extension
    TestWallet, Bypass, MockSignature, None, \* as in Authentication
    Items, Amounts, Salts, Prices, Ulp,      \* as in AuctionBook
    Files,       \* names the backend gives to uploaded images (uuid)
    Subs,        \* main category -> its subcategories
    FirstSub,    \* main category -> the first of them
    MaxCalls     \* bound: calls and timers under way at a time

Wallets == Accounts \cup {TestWallet}

VARIABLES
    auctions, sealed, answers, settled,  \* the backend: AuctionBook
    details,     \* item -> what the auction was created with
    files,       \* the images in uploads/
    valid,       \* the JWTs that are valid
    authToken, walletAddress,            \* localStorage: the session
    page,        \* the page shown
    calls        \* slot -> a call or timer under way

book == <<auctions, sealed, answers, settled>>
backend == <<book, details, files, valid>>
session == <<authToken, walletAddress>>
vars == <<backend, session, page, calls>>

Book == INSTANCE AuctionBook
Auth == INSTANCE Authentication

ASSUME SellerConstants ==
    /\ TestWallet \notin Accounts /\ None \notin Wallets \cup Items \cup Files
    /\ MockSignature \notin {None, "signature"}
    /\ None \notin {Bypass, "signature", "message", "ended"}
    /\ \A w \in Wallets : Auth!Jwt(w) \notin {None, Bypass}
    /\ FirstSub \in [{"hardware", "software"} -> STRING]
    /\ \A m \in {"hardware", "software"} : FirstSub[m] \in Subs[m]
    /\ MaxCalls \in Nat

Mains == {"hardware", "software"}
Slots == 1 .. MaxCalls
Free == [kind |-> "free"]

\* at: "page", as long as the page that made the call is shown; "tab", as
\* long as the document is; then "gone".
Call(kind, token, item, form) ==
    [kind |-> kind, at |-> "page", token |-> token, item |-> item,
     form |-> form]

LoginPage == [kind |-> "login", loading |-> FALSE]
\* Network monitoring and the security report.
OtherPage == [kind |-> "other"]
DashboardPage == [kind |-> "dashboard", asked |-> TRUE, auctions |-> {}]
DetailPage(item) ==
    [kind |-> "detail", item |-> item, asked |-> TRUE, status |-> None]

\* filled: title, price and times are there, and the times in order.
NewForm == [filled |-> FALSE, main |-> "hardware",
            sub |-> FirstSub["hardware"], image |-> None]
CreatePage == [kind |-> "create", form |-> NewForm, loading |-> FALSE]

TypeOK ==
    /\ DOMAIN details = DOMAIN auctions
    /\ \A i \in DOMAIN details :
           details[i].main \in Mains /\ details[i].sub \in Subs[details[i].main]
    /\ files \subseteq Files
    /\ page.kind = "create" => page.form.image \in Files \cup {None}
    /\ \A s \in Slots : calls[s] # Free => calls[s].at \in {"page", "tab", "gone"}

-----------------------------------------------------------------------------
(***************************************************************************)
(* Pages and calls.                                                        *)
(***************************************************************************)

\* The routes: without a session the login page, with one never.
Route(want, token) ==
    IF token = None THEN LoginPage
    ELSE IF want.kind = "login" THEN DashboardPage ELSE want

\* The calls once the page, or the document, is left.
Moved(cs, to) == [s \in Slots |->
    IF cs[s] = Free \/ cs[s].at = "gone" THEN cs[s]
    ELSE IF to = "gone" /\ cs[s].kind \in {"enter", "fallback", "open", "shown"}
      THEN Free
    ELSE [cs[s] EXCEPT !.at = to]]

\* navigate: nothing happens at a page of the same route and item.
Goes(want, token, cs) ==
    LET to == Route(want, token) IN
    IF \/ to.kind # page.kind
       \/ to.kind = "detail" /\ to.item # page.item
      THEN page' = to /\ calls' = Moved(cs, "tab")
      ELSE page' = page /\ calls' = cs

\* The document is loaded again at a path.
Loads(want, token, cs) ==
    page' = Route(want, token) /\ calls' = Moved(cs, "gone")

Place(call) ==
    \E s \in Slots :
        /\ calls[s] = Free
        /\ \A z \in 1 .. s - 1 : calls[z] # Free
        /\ calls' = [calls EXCEPT ![s] = call]

Freed(s) == [calls EXCEPT ![s] = Free]

\* Sidebar, links, buttons, and the history of the browser.
Navigate(want) ==
    /\ want.kind # page.kind
    /\ Goes(want, authToken, calls)
    /\ UNCHANGED <<backend, session>>

Reload ==
    /\ Loads(CASE page.kind = "login" -> LoginPage
               [] page.kind = "other" -> OtherPage
               [] page.kind = "dashboard" -> DashboardPage
               [] page.kind = "create" -> CreatePage
               [] page.kind = "detail" -> DetailPage(page.item),
             authToken, calls)
    /\ UNCHANGED <<backend, session>>

HandleLogout ==
    /\ page.kind # "login"
    /\ authToken' = None /\ walletAddress' = None
    /\ Goes(LoginPage, None, calls)
    /\ UNCHANGED backend

\* A JWT runs out after seven days; the application does not look.
TokenExpires(token) ==
    /\ token \in valid
    /\ valid' = valid \ {token}
    /\ UNCHANGED <<book, details, files, session, page, calls>>

-----------------------------------------------------------------------------
(***************************************************************************)
(* Login.                                                                  *)
(***************************************************************************)

\* Keplr signs for an account; without Keplr the mock wallet does.
Signed(wallet) ==
    Auth!Request(None, Auth!NoClaim,
        Auth!Claim(wallet,
                   IF wallet = TestWallet THEN MockSignature ELSE "signature",
                   "message"))

HandleKeplrLogin(wallet) ==
    /\ page.kind = "login" /\ ~ page.loading
    /\ page' = [page EXCEPT !.loading = TRUE]
    /\ Place(Call("auth", None, wallet, None))
    /\ UNCHANGED <<backend, session>>

\* Variant: the address is stored when Keplr connects.
Authenticated_Early(s, token) ==
    /\ authToken' = IF token = None THEN authToken ELSE token
    /\ walletAddress' = calls[s].item
    /\ calls' = [calls EXCEPT ![s].kind =
           IF token = None THEN "fallback" ELSE "enter"]
    /\ UNCHANGED page

\* The session is stored as a whole, or, after an error, not yet.
Authenticated(s, token) ==
    /\ authToken' = IF token = None THEN authToken ELSE token
    /\ walletAddress' = IF token = None THEN walletAddress ELSE calls[s].item
    /\ calls' = [calls EXCEPT ![s].kind =
           IF token = None THEN "fallback" ELSE "enter"]
    /\ UNCHANGED page

\* completeLogin: to the dashboard, and the document is loaded again.
LoginTimer(s) ==
    /\ calls[s].kind \in {"enter", "fallback"}
    /\ IF calls[s].kind = "fallback"
         THEN authToken' = Bypass /\ walletAddress' = TestWallet
         ELSE UNCHANGED session
    /\ Loads(DashboardPage, authToken', Freed(s))
    /\ UNCHANGED backend

HandleBypassLogin ==
    /\ page.kind = "login" /\ ~ page.loading
    /\ authToken' = Bypass /\ walletAddress' = TestWallet
    /\ Loads(DashboardPage, Bypass, calls)
    /\ UNCHANGED backend

-----------------------------------------------------------------------------
(***************************************************************************)
(* CreateAuction.                                                          *)
(***************************************************************************)

FormOnly == UNCHANGED <<backend, session, calls>>

\* A required field or a time is filled in, or emptied again.
HandleInputChange(filled) ==
    /\ page.kind = "create"
    /\ page' = [page EXCEPT !.form.filled = filled]
    /\ FormOnly

\* Variant: the subcategory stays.
SelectMain_KeepsSub(main) ==
    /\ page.kind = "create"
    /\ page' = [page EXCEPT !.form.main = main]
    /\ FormOnly

\* A main category brings its first subcategory with it.
SelectMain(main) ==
    /\ page.kind = "create"
    /\ page' = [page EXCEPT !.form.main = main, !.form.sub = FirstSub[main]]
    /\ FormOnly

SelectSub(sub) ==
    /\ page.kind = "create" /\ sub \in Subs[page.form.main]
    /\ page' = [page EXCEPT !.form.sub = sub]
    /\ FormOnly

\* Any number of uploads may be under way.
HandleImageUpload ==
    /\ page.kind = "create"
    /\ Place(Call("upload", authToken, None, None))
    /\ UNCHANGED <<backend, session, page>>

\* The answer that comes last is the image of the auction.
Uploaded(s, file) ==
    /\ page' = IF file # None /\ calls[s].at = "page"
                 THEN [page EXCEPT !.form.image = file] ELSE page
    /\ calls' = Freed(s)
    /\ UNCHANGED session

\* What the form holds when the button is pressed is sent, if it passes the
\* checks; otherwise the error is shown at once.
HandleSubmit ==
    /\ page.kind = "create" /\ ~ page.loading
    /\ page.form.filled /\ page.form.image # None
    /\ page' = [page EXCEPT !.loading = TRUE]
    /\ Place(Call("create", authToken, None, page.form))
    /\ UNCHANGED <<backend, session>>

\* Variant: loading is reset on success only.
Created_NoFinally(s, item) ==
    /\ page' = IF calls[s].at = "page" /\ item # None
                 THEN [page EXCEPT !.loading = FALSE] ELSE page
    /\ calls' = [calls EXCEPT ![s] = IF item = None THEN Free
                                     ELSE [@ EXCEPT !.kind = "open",
                                                    !.item = item]]
    /\ UNCHANGED session

\* The button can be used again, also during the two seconds after which the
\* new auction is opened.
Created(s, item) ==
    /\ page' = IF calls[s].at = "page"
                 THEN [page EXCEPT !.loading = FALSE] ELSE page
    /\ calls' = [calls EXCEPT ![s] = IF item = None THEN Free
                                     ELSE [@ EXCEPT !.kind = "open",
                                                    !.item = item]]
    /\ UNCHANGED session

\* Wherever the user has gone by then.
CreatedTimer(s) ==
    /\ calls[s].kind = "open"
    /\ Goes(DetailPage(calls[s].item), authToken, Freed(s))
    /\ UNCHANGED <<backend, session>>

-----------------------------------------------------------------------------
(***************************************************************************)
(* Dashboard and AuctionDetail.                                            *)
(***************************************************************************)

\* The wallet the backend takes a call with this token to come from.
CallerOf(token) == Auth!RequireAuth(Auth!FromApp(token), valid)

Status(item) == auctions[item].auction_status

\* The seller's auctions and statistics; one failure shows neither.
DashboardArrives(ok) ==
    LET caller == CallerOf(authToken) IN
    /\ page.kind = "dashboard" /\ page.asked
    /\ page' = [page EXCEPT
           !.asked = FALSE,
           !.auctions = IF ok /\ caller # None
               THEN {[item |-> i, status |-> Status(i)] :
                        i \in {j \in DOMAIN auctions :
                                  auctions[j].seller_address = caller}}
               ELSE {}]
    /\ UNCHANGED <<backend, session, calls>>

\* A link of the list.
OpenAuction(item) ==
    /\ page.kind = "dashboard"
    /\ \E row \in page.auctions : row.item = item
    /\ Goes(DetailPage(item), authToken, calls)
    /\ UNCHANGED <<backend, session>>

DetailArrives(ok) ==
    /\ page.kind = "detail" /\ page.asked
    /\ page' = [page EXCEPT
           !.asked = FALSE,
           !.status = IF ok /\ page.item \in DOMAIN auctions
                        THEN Status(page.item) ELSE page.status]
    /\ UNCHANGED <<backend, session, calls>>

\* The button is there, and stays, as long as the page shows an active
\* auction: it may be pressed again.
HandleCloseAuction ==
    /\ page.kind = "detail" /\ ~ page.asked /\ page.status = "active"
    /\ Place(Call("close", authToken, page.item, None))
    /\ UNCHANGED <<backend, session, page>>

\* Variant: the page changes whatever came of the call.
Closed_AnyAnswer(s, ok) ==
    /\ calls' = [calls EXCEPT ![s] = [@ EXCEPT !.kind = "shown"]]
    /\ UNCHANGED <<page, session>>

Closed(s, ok) ==
    /\ calls' = [calls EXCEPT ![s] = IF ok THEN [@ EXCEPT !.kind = "shown"]
                                     ELSE Free]
    /\ UNCHANGED <<page, session>>

\* A second later the page shows the row that was answered.
ClosedTimer(s) ==
    /\ calls[s].kind = "shown"
    /\ page' = IF calls[s].at = "page" THEN [page EXCEPT !.status = "ended"]
               ELSE page
    /\ calls' = Freed(s)
    /\ UNCHANGED <<backend, session>>

-----------------------------------------------------------------------------
(***************************************************************************)
(* The backend.                                                            *)
(***************************************************************************)

\* POST /auth/verify: the answer's token.
Verify(c, recent, token) ==
    LET answer == Auth!AuthMiddleware(Signed(c.item), valid, recent) IN
    /\ answer.wallet # None /\ token = answer.token
    /\ valid' = valid \cup ({token} \ {Bypass})
    /\ UNCHANGED <<book, details, files>>

\* Variant: the answer does not wait for the file to be written.
UploadImage_NotAwaited(c, file) ==
    /\ CallerOf(c.token) # None
    /\ file \in Files \ files
    /\ files' \in {files, files \cup {file}}
    /\ UNCHANGED <<book, details, valid>>

\* POST /upload-image: the file is written under a new name.
UploadImage(c, file) ==
    /\ CallerOf(c.token) # None
    /\ file \in Files \ files
    /\ files' = files \cup {file}
    /\ UNCHANGED <<book, details, valid>>

\* POST /auctions: main categories the backend does not know become
\* hardware.
CreateAuction(c, item) ==
    /\ CallerOf(c.token) # None
    /\ \E p \in Prices : Book!Create(CallerOf(c.token), item, p)
    /\ details' = [i \in DOMAIN auctions' |->
           IF i = item
             THEN [main |-> IF c.form.main \in Mains THEN c.form.main
                            ELSE "hardware",
                   sub |-> c.form.sub, image |-> c.form.image]
             ELSE details[i]]
    /\ UNCHANGED <<files, valid>>

\* PUT /auctions/:id/status
UpdateAuctionStatus(c) ==
    /\ CallerOf(c.token) # None
    /\ Book!SetStatus(CallerOf(c.token), c.item, "ended")
    /\ UNCHANGED <<details, files, valid>>

Late(s) ==
    calls[s].at = "gone" /\ calls' = Freed(s) /\ UNCHANGED <<session, page>>

\* A call is answered by the backend, or is refused or lost on its way, or
\* its answer is lost.  Nobody waits for it when the document is gone.
Answer(s) ==
    LET c == calls[s] IN
    \/ /\ c.kind = "auth"
       /\ \/ \E recent \in BOOLEAN, token \in {Bypass, Auth!Jwt(c.item)} :
                 /\ Verify(c, recent, token)
                 /\ Late(s) \/ (c.at # "gone" /\ Authenticated(s, token))
          \/ /\ UNCHANGED backend
             /\ Late(s) \/ (c.at # "gone" /\ Authenticated(s, None))
    \/ /\ c.kind = "upload"
       /\ \/ \E f \in Files : /\ UploadImage(c, f)
                              /\ \/ Late(s)
                                 \/ /\ c.at # "gone"
                                    /\ \E got \in {f, None} : Uploaded(s, got)
          \/ /\ UNCHANGED backend
             /\ Late(s) \/ (c.at # "gone" /\ Uploaded(s, None))
    \/ /\ c.kind = "create"
       /\ \/ \E i \in Items : /\ CreateAuction(c, i)
                              /\ \/ Late(s)
                                 \/ /\ c.at # "gone"
                                    /\ \E got \in {i, None} : Created(s, got)
          \/ /\ UNCHANGED backend
             /\ Late(s) \/ (c.at # "gone" /\ Created(s, None))
    \/ /\ c.kind = "close"
       /\ \/ /\ UpdateAuctionStatus(c)
             /\ \/ Late(s)
                \/ c.at # "gone" /\ \E ok \in BOOLEAN : Closed(s, ok)
          \/ /\ UNCHANGED backend
             /\ Late(s) \/ (c.at # "gone" /\ Closed(s, FALSE))

-----------------------------------------------------------------------------
Init ==
    /\ Book!Init
    /\ details = [i \in {} |-> None]
    /\ files = {} /\ valid = {}
    /\ authToken = None /\ walletAddress = None
    /\ page = LoginPage
    /\ calls = [s \in Slots |-> Free]

User ==
    \/ \E want \in {OtherPage, DashboardPage, CreatePage} : Navigate(want)
    \/ Reload \/ HandleLogout \/ HandleBypassLogin
    \/ \E w \in Wallets : HandleKeplrLogin(w)
    \/ \E filled \in BOOLEAN : HandleInputChange(filled)
    \/ \E m \in Mains : SelectMain(m)
    \/ \E sub \in UNION {Subs[m] : m \in Mains} : SelectSub(sub)
    \/ HandleImageUpload \/ HandleSubmit \/ HandleCloseAuction
    \/ \E i \in Items : OpenAuction(i)

Later ==
    \/ \E s \in Slots : \/ Answer(s) \/ LoginTimer(s)
                        \/ CreatedTimer(s) \/ ClosedTimer(s)
    \/ \E ok \in BOOLEAN : DashboardArrives(ok) \/ DetailArrives(ok)
    \/ \E token \in valid : TokenExpires(token)

Next == User \/ Later

Spec == Init /\ [][Next]_vars

-----------------------------------------------------------------------------
(***************************************************************************)
(* Properties.                                                             *)
(***************************************************************************)

\* There is an address with a token only, and it is the wallet the backend
\* takes the calls to come from, if it still accepts the token: whatever logins,
\* bypasses, timers and loads of the document come between (Login.jsx:57,
\* keplr.js:156).
SessionIsRecognised ==
    /\ authToken = None <=> walletAddress = None
    /\ CallerOf(authToken) \in {walletAddress, None}

\* The image of every auction is a file the backend has written, although
\* uploads overlap, their answers are lost, and the form is sent while others
\* are under way (CreateAuction.jsx:132, uploadController.js:59).
ImageIsServed ==
    \A i \in DOMAIN details : details[i].image \in files

\* A page that says an auction has ended is right: no lost answer, late
\* answer or second press makes it say so too early (AuctionDetail.jsx:59).
EndedIsEnded ==
    page.kind = "detail" /\ page.status = "ended" =>
        page.item \in DOMAIN auctions /\ Status(page.item) = "ended"

\* The disabled buttons of the login page and of the form are waiting for a
\* call or a timer of that page which gives them back (Login.jsx:46,
\* CreateAuction.jsx:208).
BusyHasACall ==
    /\ page.kind = "login" /\ page.loading =>
           \E s \in Slots : calls[s].kind \in {"auth", "enter", "fallback"}
                                /\ calls[s].at = "page"
    /\ page.kind = "create" /\ page.loading =>
           \E s \in Slots : calls[s].kind = "create" /\ calls[s].at = "page"
=============================================================================
