-------------------------- MODULE SellerAppProofs ---------------------------
(***************************************************************************)
(* What the seller's application keeps to while calls and timers outlive   *)
(* the pages that started them, for any number of accounts, auctions,      *)
(* images and calls under way.                                             *)
(***************************************************************************)
EXTENDS SellerApp, TLAPS

Tokens == {None, Bypass} \cup {Auth!Jwt(w) : w \in Wallets}

Forms ==
    {f \in [filled : BOOLEAN, main : Mains, image : Files \cup {None},
            sub : UNION {Subs[m] : m \in Mains}] : f.sub \in Subs[f.main]}

Calls ==
    [kind : {"auth", "enter", "fallback", "upload", "create", "open", "close",
             "shown"},
     at : {"page", "tab", "gone"}, token : Tokens,
     item : Wallets \cup Items \cup {None}, form : Forms \cup {None}]

\* What a call needs to be answered.
Sound(c) ==
    /\ c.kind = "auth" => c.item \in Wallets
    /\ c.kind \in {"close", "open", "shown"} => c.item \in Items
    /\ c.kind = "create" => c.form \in Forms /\ c.form.image # None

\* A call whose page is shown finds a page of its kind, of its auction.
Fits(c, p) ==
    c # Free /\ c.at = "page" =>
        /\ c.kind \in {"auth", "enter", "fallback"} => p.kind = "login"
        /\ c.kind \in {"upload", "create", "open"} => p.kind = "create"
        /\ c.kind \in {"close", "shown"} => p.kind = "detail" /\ p.item = c.item

IsPage(p) ==
    \/ p \in [kind : {"login"}, loading : BOOLEAN]
    \/ p = OtherPage
    \/ p \in [kind : {"dashboard"}, asked : BOOLEAN, auctions : {p.auctions}]
    \/ p \in [kind : {"create"}, form : Forms, loading : BOOLEAN]
    \/ p \in [kind : {"detail"}, item : Items, asked : BOOLEAN,
              status : {p.status}]

IsRow(r) ==
    r \in [seller_address : {r.seller_address},
           starting_price : {r.starting_price},
           current_highest_bid : {r.current_highest_bid},
           highest_bidder_address : {r.highest_bidder_address},
           auction_status : {r.auction_status}]

\* The inductive type invariant.
TypeInv ==
    /\ DOMAIN details = DOMAIN auctions
    /\ \A i \in DOMAIN auctions : IsRow(auctions[i])
    /\ \A i \in DOMAIN details : /\ details[i].main \in Mains
                                 /\ details[i].sub \in Subs[details[i].main]
    /\ files \subseteq Files
    /\ authToken \in Tokens
    /\ IsPage(page)
    /\ calls \in [Slots -> {Free} \cup Calls]
    /\ \A s \in Slots : calls[s] # Free => Sound(calls[s])
    /\ \A s \in Slots : Fits(calls[s], page)

-----------------------------------------------------------------------------
(***************************************************************************)
(* Leaving a page.                                                         *)
(***************************************************************************)

\* A page as it opens.
Fresh(p) ==
    \/ p \in {LoginPage, OtherPage, DashboardPage, CreatePage}
    \/ \E i \in Items : p = DetailPage(i)

\* c has become d when the page was left.
LeftBehind(c, d) ==
    \/ d = Free
    \/ /\ c # Free /\ d # Free
       /\ d \in Calls /\ d.at # "page"
       /\ d.kind = c.kind /\ d.item = c.item /\ d.form = c.form

\* Another page is shown, and no call is of it; or nothing changes but that
\* the timer of a new auction has run out.
Turned ==
    /\ calls' \in [Slots -> {Free} \cup Calls]
    /\ \/ Fresh(page') /\ \A z \in Slots : LeftBehind(calls[z], calls'[z])
       \/ /\ page' = page
          /\ \A z \in Slots : \/ calls'[z] = calls[z]
                              \/ calls[z].kind = "open" /\ calls'[z] = Free

LEMMA FreeIsNoCall == Free \notin Calls
BY DEF Free, Calls

LEMMA FreshIsPage ==
  ASSUME NEW p, Fresh(p)
  PROVE  /\ IsPage(p)
         /\ p.kind = "login" => ~ p.loading
         /\ p.kind = "create" => p.form.image = None /\ ~ p.loading
         /\ p.kind = "detail" => p.status = None
<1>1. NewForm \in Forms /\ NewForm.image = None
  BY SellerConstants DEF NewForm, Forms, Mains
<1>2. p = LoginPage \/ p = OtherPage \/ p = DashboardPage \/ p = CreatePage
      \/ \E i \in Items : p = DetailPage(i)
  BY DEF Fresh
<1>3. CASE p = LoginPage
  BY <1>3 DEF LoginPage, IsPage
<1>4. CASE p = OtherPage
  BY <1>4 DEF OtherPage, IsPage
<1>5. CASE p = DashboardPage
  BY <1>5 DEF DashboardPage, IsPage
<1>6. CASE p = CreatePage
  BY <1>1, <1>6 DEF CreatePage, IsPage
<1>7. CASE \E i \in Items : p = DetailPage(i)
  BY <1>7, SellerConstants DEF DetailPage, IsPage
<1>8. QED
  BY <1>2, <1>3, <1>4, <1>5, <1>6, <1>7

LEMMA RouteIsFresh ==
  ASSUME NEW want, NEW token, Fresh(want)
  PROVE  Fresh(Route(want, token))
BY DEF Fresh, Route

LEMMA MovedCalls ==
  ASSUME NEW cs \in [Slots -> {Free} \cup Calls], NEW to \in {"tab", "gone"}
  PROVE  /\ Moved(cs, to) \in [Slots -> {Free} \cup Calls]
         /\ \A z \in Slots : LeftBehind(cs[z], Moved(cs, to)[z])
<1> SUFFICES ASSUME NEW z \in Slots
             PROVE  /\ Moved(cs, to)[z] \in {Free} \cup Calls
                    /\ LeftBehind(cs[z], Moved(cs, to)[z])
  BY DEF Moved
<1> DEFINE d == Moved(cs, to)[z]
<1>1. CASE cs[z] = Free
  BY <1>1 DEF Moved, LeftBehind
<1>2. CASE cs[z] # Free /\ cs[z].at = "gone"
  BY <1>2, FreeIsNoCall DEF Moved, LeftBehind
<1>3. CASE /\ cs[z] # Free /\ cs[z].at # "gone"
           /\ to = "gone" /\ cs[z].kind \in {"enter", "fallback", "open", "shown"}
  BY <1>3 DEF Moved, LeftBehind
<1>4. CASE /\ cs[z] # Free /\ cs[z].at # "gone"
           /\ ~ (to = "gone" /\ cs[z].kind \in {"enter", "fallback", "open", "shown"})
  <2>1. d = [cs[z] EXCEPT !.at = to] /\ cs[z] \in Calls
    BY <1>4 DEF Moved
  <2>2. /\ d \in Calls /\ d.at = to
        /\ d.kind = cs[z].kind /\ d.item = cs[z].item /\ d.form = cs[z].form
    BY <2>1 DEF Calls
  <2>3. QED
    BY <1>4, <2>2, FreeIsNoCall DEF LeftBehind
<1>5. QED
  BY <1>1, <1>2, <1>3, <1>4

LEMMA GoesTurns ==
  ASSUME TypeInv, NEW want, NEW token, Goes(want, token, calls), Fresh(want)
  PROVE  Turned
<1>1. Moved(calls, "tab") \in [Slots -> {Free} \cup Calls]
      /\ \A z \in Slots : LeftBehind(calls[z], Moved(calls, "tab")[z])
  BY MovedCalls DEF TypeInv
<1>2. Fresh(Route(want, token))
  BY RouteIsFresh
<1>3. QED
  BY <1>1, <1>2 DEF Goes, Turned, TypeInv

LEMMA LoadsTurns ==
  ASSUME TypeInv, NEW want, NEW token, Loads(want, token, calls), Fresh(want)
  PROVE  Turned /\ Fresh(page')
<1>1. Moved(calls, "gone") \in [Slots -> {Free} \cup Calls]
      /\ \A z \in Slots : LeftBehind(calls[z], Moved(calls, "gone")[z])
  BY MovedCalls DEF TypeInv
<1>2. Fresh(Route(want, token))
  BY RouteIsFresh
<1>3. QED
  BY <1>1, <1>2 DEF Loads, Turned

\* A timer that has run out is gone before the page is.
LEMMA FreedLeft ==
  ASSUME TypeInv, NEW s \in Slots, NEW to \in {"tab", "gone"}
  PROVE  /\ Moved(Freed(s), to) \in [Slots -> {Free} \cup Calls]
         /\ Freed(s) \in [Slots -> {Free} \cup Calls]
         /\ \A z \in Slots : LeftBehind(calls[z], Moved(Freed(s), to)[z])
<1>1. Freed(s) \in [Slots -> {Free} \cup Calls]
      /\ \A z \in Slots : Freed(s)[z] \in {Free, calls[z]}
  BY DEF Freed, TypeInv
<1>2. /\ Moved(Freed(s), to) \in [Slots -> {Free} \cup Calls]
      /\ \A z \in Slots : LeftBehind(Freed(s)[z], Moved(Freed(s), to)[z])
  BY <1>1, MovedCalls
<1>3. QED
  BY <1>1, <1>2 DEF LeftBehind

\* The steps that open a page.
TurnStep ==
    \/ \E want \in {OtherPage, DashboardPage, CreatePage} : Navigate(want)
    \/ Reload \/ HandleLogout \/ HandleBypassLogin
    \/ \E i \in Items : OpenAuction(i)
    \/ \E s \in Slots : LoginTimer(s) \/ CreatedTimer(s)

LEMMA TurnStepTurns ==
  ASSUME TypeInv, TurnStep
  PROVE  /\ Turned
         /\ UNCHANGED <<auctions, details, files>>
<1>0. /\ Fresh(LoginPage) /\ Fresh(OtherPage) /\ Fresh(DashboardPage)
      /\ Fresh(CreatePage) /\ \A i \in Items : Fresh(DetailPage(i))
  BY DEF Fresh
<1>1. ASSUME NEW want \in {OtherPage, DashboardPage, CreatePage}, Navigate(want)
      PROVE  Turned /\ UNCHANGED backend
  BY <1>0, <1>1, GoesTurns DEF Navigate
<1>2. ASSUME Reload PROVE Turned /\ UNCHANGED backend
  <2>1. PICK want : Fresh(want) /\ Loads(want, authToken, calls)
    <3>1. CASE page.kind = "login"
      BY <1>0, <1>2, <3>1 DEF Reload
    <3>2. CASE page.kind = "other"
      BY <1>0, <1>2, <3>2 DEF Reload
    <3>3. CASE page.kind = "dashboard"
      BY <1>0, <1>2, <3>3 DEF Reload
    <3>4. CASE page.kind = "create"
      BY <1>0, <1>2, <3>4 DEF Reload
    <3>5. CASE page.kind = "detail"
      <4>1. page.item \in Items
        BY <3>5 DEF TypeInv, IsPage, OtherPage
      <4>2. Loads(DetailPage(page.item), authToken, calls)
        BY <1>2, <3>5 DEF Reload
      <4>3. QED
        BY <1>0, <4>1, <4>2
    <3>6. QED
      BY <3>1, <3>2, <3>3, <3>4, <3>5 DEF TypeInv, IsPage, OtherPage
  <2>2. QED
    BY <1>2, <2>1, LoadsTurns DEF Reload
<1>3. ASSUME HandleLogout PROVE Turned /\ UNCHANGED backend
  BY <1>0, <1>3, GoesTurns DEF HandleLogout
<1>4. ASSUME HandleBypassLogin PROVE Turned /\ UNCHANGED backend
  BY <1>0, <1>4, LoadsTurns DEF HandleBypassLogin
<1>5. ASSUME NEW i \in Items, OpenAuction(i) PROVE Turned /\ UNCHANGED backend
  BY <1>0, <1>5, GoesTurns DEF OpenAuction
<1>6. ASSUME NEW s \in Slots, LoginTimer(s) PROVE Turned /\ UNCHANGED backend
  <2>1. Fresh(page') /\ calls' = Moved(Freed(s), "gone")
    BY <1>0, <1>6, RouteIsFresh DEF LoginTimer, Loads
  <2>2. QED
    BY <1>6, <2>1, FreedLeft DEF LoginTimer, Turned
<1>7. ASSUME NEW s \in Slots, CreatedTimer(s) PROVE Turned /\ UNCHANGED backend
  <2>1. \/ page' = page /\ calls' = Freed(s)
        \/ page' = Route(DetailPage(calls[s].item), authToken)
           /\ calls' = Moved(Freed(s), "tab")
    BY <1>7 DEF CreatedTimer, Goes
  <2>2. calls[s].kind = "open" /\ UNCHANGED backend
    BY <1>7 DEF CreatedTimer
  <2>3. CASE page' = page /\ calls' = Freed(s)
    BY <2>2, <2>3, FreedLeft DEF Turned, Freed, TypeInv
  <2>4. CASE page' = Route(DetailPage(calls[s].item), authToken)
             /\ calls' = Moved(Freed(s), "tab")
    <3>1. calls[s].item \in Items
      BY <2>2, FreeIsNoCall DEF TypeInv, Free, Sound
    <3>2. Fresh(page')
      BY <1>0, <2>4, <3>1, RouteIsFresh
    <3>3. QED
      BY <2>2, <2>4, <3>2, FreedLeft DEF Turned
  <2>5. QED
    BY <2>1, <2>2, <2>3, <2>4
<1>8. QED
  BY <1>1, <1>2, <1>3, <1>4, <1>5, <1>6, <1>7 DEF TurnStep, backend, book

\* What is left of a call fits whatever is shown, and is as sound as it was.
LEMMA LeftBehindFits ==
  ASSUME NEW c \in {Free} \cup Calls, NEW d, LeftBehind(c, d), NEW p
  PROVE  Fits(d, p) /\ (d # Free /\ Sound(c) => Sound(d))
BY DEF LeftBehind, Fits, Sound

LEMMA TurnedTyped ==
  ASSUME TypeInv, Turned, UNCHANGED <<auctions, details, files>>,
         authToken' \in Tokens
  PROVE  TypeInv'
<1>1. /\ DOMAIN details' = DOMAIN auctions'
      /\ \A i \in DOMAIN auctions' : IsRow(auctions'[i])
      /\ \A i \in DOMAIN details' : /\ details'[i].main \in Mains
                                    /\ details'[i].sub \in Subs[details'[i].main]
      /\ files' \subseteq Files
  BY DEF TypeInv
<1>2. IsPage(page')
  BY FreshIsPage DEF Turned, TypeInv
<1>3. calls' \in [Slots -> {Free} \cup Calls]
  BY DEF Turned
<1>4. ASSUME NEW s \in Slots
      PROVE  (calls'[s] # Free => Sound(calls'[s])) /\ Fits(calls'[s], page')
  <2>1. CASE LeftBehind(calls[s], calls'[s])
    <3>1. calls[s] \in {Free} \cup Calls /\ (calls[s] # Free => Sound(calls[s]))
      BY DEF TypeInv
    <3>2. calls'[s] # Free => calls[s] # Free
      BY <2>1 DEF LeftBehind
    <3>3. QED
      BY <2>1, <3>1, <3>2, LeftBehindFits
  <2>2. CASE page' = page /\ calls'[s] = calls[s]
    BY <2>2 DEF TypeInv
  <2>3. CASE calls'[s] = Free
    BY <2>3 DEF Fits
  <2>4. QED
    BY <2>1, <2>2, <2>3 DEF Turned
<1>5. QED
  BY <1>1, <1>2, <1>3, <1>4 DEF TypeInv

-----------------------------------------------------------------------------
(***************************************************************************)
(* The other steps.                                                        *)
(***************************************************************************)

\* Something is filled in, or the answer to a page's own request is shown.
FormStep ==
    \/ \E filled \in BOOLEAN : HandleInputChange(filled)
    \/ \E m \in Mains : SelectMain(m)
    \/ \E sub \in UNION {Subs[m] : m \in Mains} : SelectSub(sub)

ArrivalStep == \E ok \in BOOLEAN : DashboardArrives(ok) \/ DetailArrives(ok)

\* A call is made.
SendStep ==
    \/ \E w \in Wallets : HandleKeplrLogin(w)
    \/ HandleImageUpload \/ HandleSubmit \/ HandleCloseAuction

LEMMA NextIsOneOf ==
  ASSUME [Next]_vars
  PROVE  \/ TurnStep \/ FormStep \/ ArrivalStep \/ SendStep
         \/ \E s \in Slots : Answer(s) \/ ClosedTimer(s)
         \/ \E token \in valid : TokenExpires(token)
         \/ UNCHANGED vars
BY DEF Next, User, Later, TurnStep, FormStep, ArrivalStep, SendStep

LEMMA FormStepKeeps ==
  ASSUME TypeInv, FormStep
  PROVE  /\ page \in [kind : {"create"}, form : Forms, loading : BOOLEAN]
         /\ page' \in [kind : {"create"}, form : Forms, loading : BOOLEAN]
         /\ page'.form.image = page.form.image /\ page'.loading = page.loading
         /\ UNCHANGED <<backend, session, calls>>
<1>1. page.kind = "create" /\ UNCHANGED <<backend, session, calls>>
  BY DEF FormStep, HandleInputChange, SelectMain, SelectSub, FormOnly
<1>2. page \in [kind : {"create"}, form : Forms, loading : BOOLEAN]
  BY <1>1 DEF TypeInv, IsPage, OtherPage
<1>3. \A m \in Mains : FirstSub[m] \in Subs[m]
  BY SellerConstants DEF Mains
<1>4. ASSUME NEW form \in Forms, form.image = page.form.image,
             page' = [page EXCEPT !.form = form]
      PROVE  /\ page' \in [kind : {"create"}, form : Forms, loading : BOOLEAN]
             /\ page'.form.image = page.form.image /\ page'.loading = page.loading
  BY <1>2, <1>4
<1>5. ASSUME NEW filled \in BOOLEAN, HandleInputChange(filled)
      PROVE  \E form \in Forms : /\ form.image = page.form.image
                                 /\ page' = [page EXCEPT !.form = form]
  <2> DEFINE form == [page.form EXCEPT !.filled = filled]
  <2>1. form \in Forms /\ form.image = page.form.image
    BY <1>2 DEF Forms
  <2>2. QED
    BY <1>2, <1>5, <2>1 DEF HandleInputChange
<1>6. ASSUME NEW m \in Mains, SelectMain(m)
      PROVE  \E form \in Forms : /\ form.image = page.form.image
                                 /\ page' = [page EXCEPT !.form = form]
  <2> DEFINE form == [[page.form EXCEPT !.main = m] EXCEPT !.sub = FirstSub[m]]
  <2>0. FirstSub[m] \in Subs[m] /\ FirstSub[m] \in UNION {Subs[x] : x \in Mains}
    BY <1>3
  <2>1. /\ form.image = page.form.image /\ form.main = m /\ form.sub = FirstSub[m]
        /\ form \in [filled : BOOLEAN, main : Mains, image : Files \cup {None},
                     sub : UNION {Subs[x] : x \in Mains}]
        /\ form \in Forms
    <3>1. page.form \in [filled : BOOLEAN, main : Mains, image : Files \cup {None},
                         sub : UNION {Subs[x] : x \in Mains}]
      BY <1>2 DEF Forms
    <3>2. /\ form.image = page.form.image /\ form.main = m /\ form.sub = FirstSub[m]
          /\ form \in [filled : BOOLEAN, main : Mains, image : Files \cup {None},
                       sub : UNION {Subs[x] : x \in Mains}]
      BY <2>0, <3>1
    <3>3. QED
      BY <2>0, <3>2 DEF Forms
  <2>2. page' = [page EXCEPT !.form = form]
    BY <1>2, <1>6 DEF SelectMain
  <2>3. QED
    BY <2>1, <2>2
<1>7. ASSUME NEW sub \in UNION {Subs[m] : m \in Mains}, SelectSub(sub)
      PROVE  \E form \in Forms : /\ form.image = page.form.image
                                 /\ page' = [page EXCEPT !.form = form]
  <2> DEFINE form == [page.form EXCEPT !.sub = sub]
  <2>1. form \in Forms /\ form.image = page.form.image
    BY <1>2, <1>7 DEF Forms, SelectSub
  <2>2. QED
    BY <1>2, <1>7, <2>1 DEF SelectSub
<1>8. QED
  BY <1>1, <1>2, <1>4, <1>5, <1>6, <1>7 DEF FormStep

LEMMA ArrivalStepKeeps ==
  ASSUME TypeInv, ArrivalStep
  PROVE  /\ page'.kind = page.kind /\ page.kind \in {"dashboard", "detail"}
         /\ IsPage(page')
         /\ page.kind = "detail" =>
                /\ page'.item = page.item
                /\ \/ page'.status = page.status
                   \/ /\ page.item \in DOMAIN auctions
                      /\ page'.status = Status(page.item)
         /\ UNCHANGED <<backend, session, calls>>
<1>1. ASSUME NEW ok \in BOOLEAN, DashboardArrives(ok)
      PROVE  /\ page.kind = "dashboard" /\ page'.kind = "dashboard"
             /\ IsPage(page') /\ UNCHANGED <<backend, session, calls>>
  <2>1. page \in [kind : {"dashboard"}, asked : BOOLEAN, auctions : {page.auctions}]
    BY <1>1 DEF DashboardArrives, TypeInv, IsPage, OtherPage
  <2>2. PICK list : page' = [[page EXCEPT !.asked = FALSE] EXCEPT !.auctions = list]
    BY <1>1, <2>1 DEF DashboardArrives
  <2>3. page' \in [kind : {"dashboard"}, asked : BOOLEAN, auctions : {page'.auctions}]
    BY <2>1, <2>2
  <2>4. QED
    BY <1>1, <2>3 DEF DashboardArrives, IsPage
<1>2. ASSUME NEW ok \in BOOLEAN, DetailArrives(ok)
      PROVE  /\ page.kind = "detail" /\ page'.kind = "detail"
             /\ IsPage(page') /\ UNCHANGED <<backend, session, calls>>
             /\ page'.item = page.item
             /\ \/ page'.status = page.status
                \/ /\ page.item \in DOMAIN auctions
                   /\ page'.status = Status(page.item)
  <2>1. page \in [kind : {"detail"}, item : Items, asked : BOOLEAN,
                  status : {page.status}]
    BY <1>2 DEF DetailArrives, TypeInv, IsPage, OtherPage
  <2>2. PICK value : /\ \/ value = page.status
                        \/ page.item \in DOMAIN auctions /\ value = Status(page.item)
                     /\ page' = [[page EXCEPT !.asked = FALSE] EXCEPT !.status = value]
    BY <1>2, <2>1 DEF DetailArrives
  <2>3. page' \in [kind : {"detail"}, item : Items, asked : BOOLEAN,
                   status : {page'.status}]
        /\ page'.item = page.item /\ page'.status = value
    BY <2>1, <2>2
  <2>4. QED
    BY <1>2, <2>1, <2>2, <2>3 DEF DetailArrives, IsPage
<1>3. QED
  BY <1>1, <1>2 DEF ArrivalStep

\* The call a button makes, and the page it leaves.
Sent(c) ==
    /\ c \in Calls /\ Sound(c) /\ Fits(c, page')
    /\ \E s \in Slots : calls[s] = Free /\ calls' = [calls EXCEPT ![s] = c]
    /\ \/ page' = page
       \/ /\ page'.kind = page.kind /\ page' = [page EXCEPT !.loading = TRUE]
          /\ c.at = "page"
          /\ \/ page.kind = "login" /\ c.kind = "auth"
             \/ page.kind = "create" /\ c.kind = "create"

LEMMA SendStepSends ==
  ASSUME TypeInv, SendStep
  PROVE  /\ UNCHANGED <<backend, session>> /\ IsPage(page')
         /\ \E c \in Calls :
                /\ Sent(c)
                /\ c.kind \in {"auth", "upload", "create", "close"}
                /\ c.kind = "create" => page.kind = "create" /\ c.form = page.form
<1>0. None \notin Wallets /\ None \notin Items
  BY SellerConstants
<1>1. \A c : Place(c) =>
          \E s \in Slots : calls[s] = Free /\ calls' = [calls EXCEPT ![s] = c]
  BY DEF Place
<1>2. ASSUME NEW w \in Wallets, HandleKeplrLogin(w)
      PROVE  /\ UNCHANGED <<backend, session>> /\ IsPage(page')
             /\ \E c \in Calls : Sent(c) /\ c.kind = "auth"
  <2> DEFINE c == Call("auth", None, w, None)
  <2>1. c \in Calls /\ c.kind = "auth" /\ c.item = w /\ c.at = "page"
    BY DEF Call, Calls, Tokens
  <2>2. page \in [kind : {"login"}, loading : BOOLEAN]
    BY <1>2 DEF HandleKeplrLogin, TypeInv, IsPage, OtherPage
  <2>3. page' = [page EXCEPT !.loading = TRUE] /\ Place(c) /\ page.kind = "login"
        /\ UNCHANGED <<backend, session>>
    BY <1>2 DEF HandleKeplrLogin
  <2>4. page' \in [kind : {"login"}, loading : BOOLEAN]
    BY <2>2, <2>3
  <2> HIDE DEF c
  <2>5. Fits(c, page') /\ Sound(c) /\ page'.kind = page.kind
    BY <2>1, <2>2, <2>4 DEF Fits, Sound
  <2>6. Sent(c)
    BY <1>1, <2>1, <2>3, <2>5 DEF Sent
  <2>7. QED
    BY <2>1, <2>3, <2>4, <2>6 DEF IsPage
<1>3. ASSUME HandleImageUpload
      PROVE  /\ UNCHANGED <<backend, session>> /\ IsPage(page')
             /\ \E c \in Calls : Sent(c) /\ c.kind = "upload"
  <2> DEFINE c == Call("upload", authToken, None, None)
  <2>1. c \in Calls /\ c.kind = "upload" /\ c.at = "page"
    BY DEF Call, Calls, TypeInv
  <2>2. page' = page /\ Place(c) /\ page.kind = "create"
        /\ UNCHANGED <<backend, session>>
    BY <1>3 DEF HandleImageUpload
  <2> HIDE DEF c
  <2>3. Fits(c, page') /\ Sound(c)
    BY <2>1, <2>2 DEF Fits, Sound
  <2>4. Sent(c)
    BY <1>1, <2>1, <2>2, <2>3 DEF Sent
  <2>5. QED
    BY <2>1, <2>2, <2>4 DEF TypeInv
<1>4. ASSUME HandleSubmit
      PROVE  /\ UNCHANGED <<backend, session>> /\ IsPage(page')
             /\ \E c \in Calls : /\ Sent(c) /\ c.kind = "create"
                                 /\ page.kind = "create" /\ c.form = page.form
  <2> DEFINE c == Call("create", authToken, None, page.form)
  <2>1. page \in [kind : {"create"}, form : Forms, loading : BOOLEAN]
    BY <1>4 DEF HandleSubmit, TypeInv, IsPage, OtherPage
  <2>2. page' = [page EXCEPT !.loading = TRUE] /\ Place(c)
        /\ page.kind = "create" /\ page.form.image # None
        /\ UNCHANGED <<backend, session>>
    BY <1>4 DEF HandleSubmit
  <2>3. c \in Calls /\ c.kind = "create" /\ c.at = "page" /\ c.form = page.form
    BY <2>1 DEF Call, Calls, TypeInv
  <2>4. page' \in [kind : {"create"}, form : Forms, loading : BOOLEAN]
    BY <2>1, <2>2
  <2> HIDE DEF c
  <2>5. Fits(c, page') /\ Sound(c) /\ page'.kind = page.kind
    BY <2>1, <2>2, <2>3, <2>4 DEF Fits, Sound
  <2>6. Sent(c)
    BY <1>1, <2>2, <2>3, <2>5 DEF Sent
  <2>7. QED
    BY <2>2, <2>3, <2>4, <2>6 DEF IsPage
<1>5. ASSUME HandleCloseAuction
      PROVE  /\ UNCHANGED <<backend, session>> /\ IsPage(page')
             /\ \E c \in Calls : Sent(c) /\ c.kind = "close"
  <2> DEFINE c == Call("close", authToken, page.item, None)
  <2>1. page.kind = "detail" /\ page.item \in Items
    BY <1>5 DEF HandleCloseAuction, TypeInv, IsPage, OtherPage
  <2>2. page' = page /\ Place(c) /\ UNCHANGED <<backend, session>>
    BY <1>5 DEF HandleCloseAuction
  <2>3. c \in Calls /\ c.kind = "close" /\ c.item = page.item
    BY <2>1 DEF Call, Calls, TypeInv
  <2> HIDE DEF c
  <2>4. Fits(c, page') /\ Sound(c)
    BY <2>1, <2>2, <2>3 DEF Fits, Sound
  <2>5. Sent(c)
    BY <1>1, <2>2, <2>3, <2>4 DEF Sent
  <2>6. QED
    BY <2>2, <2>3, <2>5 DEF TypeInv
<1>6. CASE \E w \in Wallets : HandleKeplrLogin(w)
  BY <1>2, <1>6
<1>7. CASE HandleImageUpload
  BY <1>3, <1>7
<1>8. CASE HandleSubmit
  BY <1>4, <1>8
<1>9. CASE HandleCloseAuction
  BY <1>5, <1>9
<1>10. QED
  BY <1>6, <1>7, <1>8, <1>9 DEF SendStep

-----------------------------------------------------------------------------
(***************************************************************************)
(* Answers.                                                                *)
(***************************************************************************)

\* What an answered call has become: nothing, or the timer that follows it.
Becomes(s, d) ==
    /\ calls' = [calls EXCEPT ![s] = d]
    /\ \/ d = Free
       \/ d \in Calls /\ d.at = calls[s].at /\ Sound(d)

LEMMA Answerable ==
  ASSUME TypeInv, NEW s \in Slots, calls[s].kind # "free"
  PROVE  /\ calls[s] # Free /\ calls[s] \in Calls
         /\ Sound(calls[s]) /\ Fits(calls[s], page)
BY DEF TypeInv, Free

\* Whose session a login's answer stores.
LEMMA AuthAnswered ==
  ASSUME TypeInv, NEW s \in Slots, calls[s].kind = "auth", Answer(s)
  PROVE  /\ UNCHANGED <<book, details, files, page>>
         /\ \E d : /\ Becomes(s, d)
                   /\ \/ d = Free /\ calls[s].at = "gone"
                      \/ d # Free /\ d.kind \in {"enter", "fallback"}
         /\ \/ UNCHANGED session
            \/ authToken' = Bypass /\ walletAddress' = TestWallet
            \/ /\ walletAddress' \in Wallets
               /\ authToken' = Auth!Jwt(walletAddress')
<1>0. /\ calls[s] # Free /\ calls[s] \in Calls
      /\ Sound(calls[s]) /\ Fits(calls[s], page)
  BY Answerable
<1>1. PICK c : c = calls[s]
  OBVIOUS
<1>2. c.item \in Wallets
  BY <1>0, <1>1 DEF Sound
<1>3. \/ \E recent \in BOOLEAN, token \in {Bypass, Auth!Jwt(c.item)} :
             /\ Verify(c, recent, token)
             /\ Late(s) \/ (c.at # "gone" /\ Authenticated(s, token))
      \/ /\ UNCHANGED backend
         /\ Late(s) \/ (c.at # "gone" /\ Authenticated(s, None))
  BY <1>1 DEF Answer
<1>4. UNCHANGED <<book, details, files>>
  BY <1>3 DEF Verify, backend
<1>5. ASSUME NEW token, Authenticated(s, token)
      PROVE  /\ page' = page
             /\ \E d : Becomes(s, d) /\ d # Free /\ d.kind \in {"enter", "fallback"}
  <2> DEFINE k == IF token = None THEN "fallback" ELSE "enter"
             d == [calls[s] EXCEPT !.kind = k]
  <2>1. d \in Calls /\ d.kind \in {"enter", "fallback"} /\ d.at = calls[s].at
    BY <1>0 DEF Calls
  <2>2. calls' = [calls EXCEPT ![s] = d] /\ page' = page
    BY <1>5 DEF Authenticated
  <2> HIDE DEF d
  <2>3. Sound(d) /\ d # Free
    BY <2>1, FreeIsNoCall DEF Sound
  <2>4. QED
    BY <2>1, <2>2, <2>3 DEF Becomes
<1>6. Late(s) => /\ page' = page /\ UNCHANGED session
                 /\ Becomes(s, Free) /\ calls[s].at = "gone"
  BY DEF Late, Becomes, Freed
<1>7. ASSUME NEW recent \in BOOLEAN, NEW token, Verify(c, recent, token)
      PROVE  \/ token = Bypass /\ c.item = TestWallet
             \/ token = Auth!Jwt(c.item)
  <2> DEFINE answer == Auth!AuthMiddleware(Signed(c.item), valid, recent)
  <2>1. answer.wallet # None /\ token = answer.token
    BY <1>7 DEF Verify
  <2>2. c.item # None /\ None # Bypass
    BY <1>2, SellerConstants
  <2>3. CASE c.item = TestWallet
    <3>1. Signed(c.item) = Auth!Request(None, Auth!NoClaim,
                               Auth!Claim(c.item, MockSignature, "message"))
      BY <2>3 DEF Signed
    <3>2. answer = Auth!Answered(c.item, Bypass)
      BY <2>2, <3>1, SellerConstants
         DEF Auth!AuthMiddleware, Auth!Request, Auth!NoClaim, Auth!Claim, Auth!Or
    <3>3. QED
      BY <2>1, <2>3, <3>2 DEF Auth!Answered
  <2>4. CASE c.item # TestWallet
    <3>1. Signed(c.item) = Auth!Request(None, Auth!NoClaim,
                               Auth!Claim(c.item, "signature", "message"))
      BY <2>4 DEF Signed
    <3>2. answer \in {Auth!Refused, Auth!Answered(c.item, Auth!Jwt(c.item))}
      BY <2>2, <3>1, SellerConstants
         DEF Auth!AuthMiddleware, Auth!Request, Auth!NoClaim, Auth!Claim, Auth!Or
    <3>3. QED
      BY <2>1, <3>2 DEF Auth!Answered, Auth!Refused
  <2>5. QED
    BY <2>3, <2>4
<1>8. ASSUME NEW recent \in BOOLEAN, NEW token \in {Bypass, Auth!Jwt(c.item)},
             Verify(c, recent, token), Authenticated(s, token)
      PROVE  \/ authToken' = Bypass /\ walletAddress' = TestWallet
             \/ /\ walletAddress' \in Wallets
                /\ authToken' = Auth!Jwt(walletAddress')
  <2>1. token # None
    BY <1>2, SellerConstants
  <2>2. authToken' = token /\ walletAddress' = c.item
    BY <1>1, <1>8, <2>1 DEF Authenticated
  <2>3. QED
    BY <1>2, <1>7, <1>8, <2>2
<1>9. Authenticated(s, None) => UNCHANGED session
  BY DEF Authenticated, session
<1>10. QED
  BY <1>3, <1>4, <1>5, <1>6, <1>8, <1>9

LEMMA CreatePageTyped ==
  ASSUME TypeInv, page.kind = "create"
  PROVE  page \in [kind : {"create"}, form : Forms, loading : BOOLEAN]
BY DEF TypeInv, IsPage, OtherPage

\* The image of the form is a file that is there.
LEMMA UploadAnswered ==
  ASSUME TypeInv, NEW s \in Slots, calls[s].kind = "upload", Answer(s)
  PROVE  /\ UNCHANGED <<book, details, session>> /\ Becomes(s, Free)
         /\ files \subseteq files' /\ files' \subseteq Files
         /\ \/ page' = page
            \/ /\ page.kind = "create" /\ page'.loading = page.loading
               /\ page' \in [kind : {"create"}, form : Forms, loading : BOOLEAN]
               /\ page'.form.image \in files'
<1>0. Fits(calls[s], page) /\ calls[s] # Free /\ None \notin Files
  BY Answerable, SellerConstants
<1>1. PICK c : c = calls[s]
  OBVIOUS
<1>2. \/ \E f \in Files : /\ UploadImage(c, f)
                          /\ \/ Late(s)
                             \/ /\ c.at # "gone"
                                /\ \E got \in {f, None} : Uploaded(s, got)
      \/ /\ UNCHANGED backend
         /\ Late(s) \/ (c.at # "gone" /\ Uploaded(s, None))
  BY <1>1 DEF Answer
<1>3. /\ UNCHANGED <<book, details, session>> /\ Becomes(s, Free)
      /\ files \subseteq files' /\ files' \subseteq Files
  BY <1>2 DEF UploadImage, Late, Uploaded, Becomes, Freed, backend, TypeInv
<1>4. Late(s) => page' = page
  BY DEF Late
<1>5. Uploaded(s, None) => page' = page
  BY DEF Uploaded
<1>6. ASSUME NEW f \in Files, UploadImage(c, f), Uploaded(s, f), page' # page
      PROVE  /\ page.kind = "create" /\ page'.loading = page.loading
             /\ page' \in [kind : {"create"}, form : Forms, loading : BOOLEAN]
             /\ page'.form.image \in files'
  <2>1. calls[s].at = "page" /\ page' = [page EXCEPT !.form.image = f]
    BY <1>6 DEF Uploaded
  <2>2. page.kind = "create"
    BY <1>0, <2>1 DEF Fits
  <2>3. page \in [kind : {"create"}, form : Forms, loading : BOOLEAN]
    BY <2>2, CreatePageTyped
  <2> DEFINE form == [page.form EXCEPT !.image = f]
  <2>4. form \in Forms /\ form.image = f
    BY <2>3 DEF Forms
  <2>5. page' = [page EXCEPT !.form = form]
    BY <2>1, <2>3
  <2> HIDE DEF form
  <2>6. f \in files'
    BY <1>6 DEF UploadImage
  <2>7. QED
    BY <2>2, <2>3, <2>4, <2>5, <2>6
<1>7. QED
  BY <1>2, <1>3, <1>4, <1>5, <1>6

\* A new auction is what the form held; the others stay.
LEMMA CreateAnswered ==
  ASSUME TypeInv, NEW s \in Slots, calls[s].kind = "create", Answer(s)
  PROVE  /\ UNCHANGED <<files, session>>
         /\ \E d : Becomes(s, d) /\ (d = Free \/ d.kind = "open")
         /\ \/ page' = page /\ calls[s].at # "page"
            \/ /\ page' \in [kind : {"create"}, form : Forms, loading : BOOLEAN]
               /\ page.kind = "create" /\ ~ page'.loading
               /\ page'.form = page.form
         /\ \/ UNCHANGED <<auctions, details>>
            \/ \E i \in Items :
                  /\ DOMAIN auctions' = DOMAIN auctions \cup {i}
                  /\ DOMAIN details' = DOMAIN auctions'
                  /\ IsRow(auctions'[i]) /\ i \notin DOMAIN auctions
                  /\ details'[i].main \in Mains
                  /\ details'[i].sub \in Subs[details'[i].main]
                  /\ details'[i].image = calls[s].form.image
                  /\ \A j \in DOMAIN auctions : /\ auctions'[j] = auctions[j]
                                                /\ details'[j] = details[j]
<1>0. /\ calls[s] # Free /\ calls[s] \in Calls
      /\ Sound(calls[s]) /\ Fits(calls[s], page)
  BY Answerable
<1>1. PICK c : c = calls[s]
  OBVIOUS
<1>2. \/ \E i \in Items : /\ CreateAuction(c, i)
                          /\ \/ Late(s)
                             \/ /\ c.at # "gone"
                                /\ \E got \in {i, None} : Created(s, got)
      \/ /\ UNCHANGED backend
         /\ Late(s) \/ (c.at # "gone" /\ Created(s, None))
  BY <1>1 DEF Answer
<1>3. UNCHANGED <<files, session>>
  BY <1>2 DEF CreateAuction, backend, Late, Created, session
<1>4. ASSUME Late(s)
      PROVE  /\ page' = page /\ calls[s].at # "page" /\ Becomes(s, Free)
  BY <1>4 DEF Late, Becomes, Freed
<1>5. ASSUME NEW item \in Items \cup {None}, Created(s, item)
      PROVE  /\ \E d : Becomes(s, d) /\ (d = Free \/ d.kind = "open")
             /\ \/ page' = page /\ calls[s].at # "page"
                \/ /\ page' \in [kind : {"create"}, form : Forms, loading : BOOLEAN]
                   /\ page.kind = "create" /\ ~ page'.loading
                   /\ page'.form = page.form
  <2>1. ASSUME item = None
        PROVE  \E d : Becomes(s, d) /\ (d = Free \/ d.kind = "open")
    BY <1>5, <2>1 DEF Created, Becomes
  <2>2. ASSUME item # None
        PROVE  \E d : Becomes(s, d) /\ (d = Free \/ d.kind = "open")
    <3> DEFINE d == [[calls[s] EXCEPT !.kind = "open"] EXCEPT !.item = item]
    <3>1. d \in Calls /\ d.at = calls[s].at /\ d.kind = "open" /\ d.item = item
      BY <1>0, <1>5 DEF Calls
    <3>2. calls' = [calls EXCEPT ![s] = d]
      BY <1>0, <1>5, <2>2 DEF Created, TypeInv, Calls
    <3> HIDE DEF d
    <3>3. Sound(d)
      BY <2>2, <3>1, <1>5 DEF Sound
    <3>4. QED
      BY <3>1, <3>2, <3>3 DEF Becomes
  <2>3. ASSUME calls[s].at = "page"
        PROVE  /\ page' \in [kind : {"create"}, form : Forms, loading : BOOLEAN]
               /\ page.kind = "create" /\ ~ page'.loading
               /\ page'.form = page.form
    <3>1. page.kind = "create" /\ page' = [page EXCEPT !.loading = FALSE]
      BY <1>0, <1>5, <2>3 DEF Fits, Created
    <3>2. page \in [kind : {"create"}, form : Forms, loading : BOOLEAN]
      BY <3>1, CreatePageTyped
    <3>3. QED
      BY <3>1, <3>2
  <2>4. calls[s].at # "page" => page' = page
    BY <1>5 DEF Created
  <2>5. \E d : Becomes(s, d) /\ (d = Free \/ d.kind = "open")
    BY <2>1, <2>2
  <2>6. QED
    BY <2>3, <2>4, <2>5
<1>6. ASSUME NEW i \in Items, CreateAuction(c, i)
      PROVE  /\ DOMAIN auctions' = DOMAIN auctions \cup {i}
             /\ DOMAIN details' = DOMAIN auctions'
             /\ IsRow(auctions'[i]) /\ i \notin DOMAIN auctions
             /\ details'[i].main \in Mains
             /\ details'[i].sub \in Subs[details'[i].main]
             /\ details'[i].image = c.form.image
             /\ \A j \in DOMAIN auctions : /\ auctions'[j] = auctions[j]
                                           /\ details'[j] = details[j]
  <2>1. PICK p \in Prices : Book!Create(CallerOf(c.token), i, p)
    BY <1>6 DEF CreateAuction
  <2>2. /\ DOMAIN auctions' = DOMAIN auctions \cup {i} /\ i \notin DOMAIN auctions
        /\ \A j \in DOMAIN auctions : auctions'[j] = auctions[j]
        /\ auctions'[i] = [seller_address         |-> CallerOf(c.token),
                           starting_price         |-> p,
                           current_highest_bid    |-> None,
                           highest_bidder_address |-> None,
                           auction_status         |-> "active"]
    BY <2>1 DEF Book!Create
  <2>3. IsRow(auctions'[i])
    BY <2>2 DEF IsRow
  <2>4. c.form \in Forms
    BY <1>0, <1>1 DEF Sound
  <2>5. details' = [j \in DOMAIN auctions' |->
            IF j = i THEN [main |-> IF c.form.main \in Mains THEN c.form.main
                                    ELSE "hardware",
                           sub |-> c.form.sub, image |-> c.form.image]
            ELSE details[j]]
    BY <1>6 DEF CreateAuction
  <2>6. details'[i] = [main |-> c.form.main, sub |-> c.form.sub,
                       image |-> c.form.image]
    BY <2>2, <2>4, <2>5 DEF Forms
  <2>7. QED
    BY <2>2, <2>3, <2>4, <2>5, <2>6 DEF Forms
<1>7. UNCHANGED backend => UNCHANGED <<auctions, details>>
  BY DEF backend, book
<1>8. (\E d : Becomes(s, d) /\ (d = Free \/ d.kind = "open"))
      /\ \/ page' = page /\ calls[s].at # "page"
         \/ /\ page' \in [kind : {"create"}, form : Forms, loading : BOOLEAN]
            /\ page.kind = "create" /\ ~ page'.loading
            /\ page'.form = page.form
  BY <1>2, <1>4, <1>5
<1>9. QED
  BY <1>1, <1>2, <1>3, <1>6, <1>7, <1>8

\* Ended auctions stay ended, and a timer that will say so is right.
LEMMA CloseAnswered ==
  ASSUME TypeInv, NEW s \in Slots, calls[s].kind = "close", Answer(s)
  PROVE  /\ UNCHANGED <<details, files, session, page>>
         /\ DOMAIN auctions' = DOMAIN auctions
         /\ \A i \in DOMAIN auctions :
                /\ IsRow(auctions'[i])
                /\ Status(i) = "ended" => Status(i)' = "ended"
         /\ \E d : /\ Becomes(s, d)
                   /\ \/ d = Free
                      \/ /\ d.kind = "shown" /\ d.item = calls[s].item
                         /\ d.item \in DOMAIN auctions'
                         /\ auctions'[d.item].auction_status = "ended"
<1>0. /\ calls[s] # Free /\ calls[s] \in Calls /\ Sound(calls[s])
  BY Answerable
<1>1. PICK c : c = calls[s]
  OBVIOUS
<1>2. \/ /\ UpdateAuctionStatus(c)
         /\ \/ Late(s)
            \/ c.at # "gone" /\ \E ok \in BOOLEAN : Closed(s, ok)
      \/ /\ UNCHANGED backend
         /\ Late(s) \/ (c.at # "gone" /\ Closed(s, FALSE))
  BY <1>1 DEF Answer
<1>3. UNCHANGED <<details, files, session, page>>
  BY <1>2 DEF UpdateAuctionStatus, backend, Late, Closed, session
<1>4. ASSUME UpdateAuctionStatus(c)
      PROVE  /\ DOMAIN auctions' = DOMAIN auctions
             /\ \A i \in DOMAIN auctions :
                    /\ IsRow(auctions'[i])
                    /\ Status(i) = "ended" => Status(i)' = "ended"
             /\ c.item \in DOMAIN auctions
             /\ auctions'[c.item].auction_status = "ended"
  <2>1. /\ c.item \in DOMAIN auctions
        /\ auctions' = [auctions EXCEPT ![c.item].auction_status = "ended"]
    BY <1>4 DEF UpdateAuctionStatus, Book!SetStatus
  <2> DEFINE row == [auctions[c.item] EXCEPT !.auction_status = "ended"]
  <2>2. IsRow(auctions[c.item])
    BY <2>1 DEF TypeInv
  <2>3. IsRow(row) /\ row.auction_status = "ended"
    BY <2>2 DEF IsRow
  <2>4. /\ DOMAIN auctions' = DOMAIN auctions
        /\ auctions'[c.item] = row
        /\ \A i \in DOMAIN auctions : i # c.item => auctions'[i] = auctions[i]
    BY <2>1
  <2> HIDE DEF row
  <2>5. QED
    BY <2>1, <2>3, <2>4 DEF TypeInv, Status
<1>5. ASSUME Closed(s, TRUE)
      PROVE  \E d : /\ Becomes(s, d) /\ d.kind = "shown" /\ d.item = c.item
  <2> DEFINE d == [calls[s] EXCEPT !.kind = "shown"]
  <2>1. /\ d \in Calls /\ d.at = calls[s].at /\ d.kind = "shown" /\ d.item = c.item
    BY <1>0, <1>1 DEF Calls
  <2>2. calls' = [calls EXCEPT ![s] = d]
    BY <1>5 DEF Closed
  <2> HIDE DEF d
  <2>3. Sound(d)
    BY <1>0, <1>1, <2>1 DEF Sound
  <2>4. QED
    BY <2>1, <2>2, <2>3 DEF Becomes
<1>6. Late(s) \/ Closed(s, FALSE) => Becomes(s, Free)
  BY DEF Late, Closed, Becomes, Freed
<1>7. UNCHANGED backend =>
          /\ DOMAIN auctions' = DOMAIN auctions
          /\ \A i \in DOMAIN auctions :
                 /\ IsRow(auctions'[i])
                 /\ Status(i) = "ended" => Status(i)' = "ended"
  BY DEF backend, book, TypeInv, Status
<1>8. QED
  BY <1>1, <1>2, <1>3, <1>4, <1>5, <1>6, <1>7

LEMMA ClosedTimerEnds ==
  ASSUME TypeInv, NEW s \in Slots, ClosedTimer(s)
  PROVE  /\ UNCHANGED <<backend, session>>
         /\ calls[s].kind = "shown" /\ Becomes(s, Free)
         /\ \/ page' = page
            \/ /\ page.kind = "detail" /\ page.item = calls[s].item
               /\ calls[s].at = "page"
               /\ page'.kind = "detail" /\ page'.item = page.item
               /\ page'.status = "ended" /\ IsPage(page')
<1>1. calls[s].kind = "shown" /\ UNCHANGED <<backend, session>> /\ Becomes(s, Free)
  BY DEF ClosedTimer, Becomes, Freed
<1>2. calls[s] # Free /\ Fits(calls[s], page)
  BY <1>1, Answerable
<1>3. ASSUME calls[s].at = "page"
      PROVE  /\ page.kind = "detail" /\ page.item = calls[s].item
             /\ page'.kind = "detail" /\ page'.item = page.item
             /\ page'.status = "ended" /\ IsPage(page')
  <2>1. /\ page.kind = "detail" /\ page.item = calls[s].item
        /\ page' = [page EXCEPT !.status = "ended"]
    BY <1>1, <1>2, <1>3 DEF Fits, ClosedTimer
  <2>2. page \in [kind : {"detail"}, item : Items, asked : BOOLEAN,
                  status : {page.status}]
    BY <2>1 DEF TypeInv, IsPage, OtherPage
  <2>3. /\ page' \in [kind : {"detail"}, item : Items, asked : BOOLEAN,
                      status : {page'.status}]
        /\ page'.status = "ended" /\ page'.item = page.item
    BY <2>1, <2>2
  <2>4. QED
    BY <2>1, <2>3 DEF IsPage
<1>4. calls[s].at # "page" => page' = page
  BY DEF ClosedTimer
<1>5. QED
  BY <1>1, <1>3, <1>4

-----------------------------------------------------------------------------
(***************************************************************************)
(* Types.                                                                  *)
(***************************************************************************)

\* Calls that are not touched fit a page that changed its contents only.
LEMMA StillFits ==
  ASSUME NEW c, NEW p, NEW q, Fits(c, p), q.kind = p.kind,
         p.kind = "detail" => q.item = p.item
  PROVE  Fits(c, q)
BY DEF Fits

LEMMA InitTyped == Init => TypeInv
<1> SUFFICES ASSUME Init PROVE TypeInv
  OBVIOUS
<1>1. DOMAIN auctions = {} /\ DOMAIN details = {}
  BY DEF Init, Book!Init
<1>2. IsPage(page) /\ calls \in [Slots -> {Free} \cup Calls]
      /\ authToken \in Tokens /\ files \subseteq Files
  BY DEF Init, IsPage, LoginPage, Tokens
<1>3. \A s \in Slots : calls[s] = Free
  BY DEF Init
<1>4. QED
  BY <1>1, <1>2, <1>3 DEF TypeInv, Fits

\* An answer leaves calls that are as typed as they were.
LEMMA BecomesTyped ==
  ASSUME TypeInv, NEW s \in Slots, NEW d, Becomes(s, d)
  PROVE  /\ calls' \in [Slots -> {Free} \cup Calls]
         /\ \A z \in Slots : calls'[z] # Free => Sound(calls'[z])
         /\ calls'[s] = d /\ \A z \in Slots \ {s} : calls'[z] = calls[z]
BY DEF Becomes, TypeInv

LEMMA NextTyped == TypeInv /\ [Next]_vars => TypeInv'
<1> SUFFICES ASSUME TypeInv, [Next]_vars PROVE TypeInv'
  OBVIOUS
<1>1. CASE TurnStep
  <2>1. authToken' \in Tokens
    <3>1. authToken' \in {authToken, None, Bypass}
      BY <1>1 DEF TurnStep, Navigate, Reload, HandleLogout, HandleBypassLogin,
         OpenAuction, LoginTimer, CreatedTimer, session
    <3>2. QED
      BY <3>1 DEF TypeInv, Tokens
  <2>2. QED
    BY <1>1, <2>1, TurnStepTurns, TurnedTyped
<1>2. CASE FormStep
  <2>1. /\ page' \in [kind : {"create"}, form : Forms, loading : BOOLEAN]
        /\ page.kind = "create" /\ UNCHANGED <<backend, session, calls>>
    BY <1>2, FormStepKeeps
  <2>2. IsPage(page') /\ page'.kind = page.kind /\ page.kind # "detail"
    BY <2>1 DEF IsPage
  <2>3. \A s \in Slots : Fits(calls[s], page')
    BY <2>2, StillFits DEF TypeInv
  <2>4. QED
    BY <2>1, <2>2, <2>3 DEF TypeInv, backend, book, session
<1>3. CASE ArrivalStep
  <2>1. /\ IsPage(page') /\ page'.kind = page.kind
        /\ page.kind = "detail" => page'.item = page.item
        /\ UNCHANGED <<backend, session, calls>>
    BY <1>3, ArrivalStepKeeps
  <2>2. \A s \in Slots : Fits(calls[s], page')
    BY <2>1, StillFits DEF TypeInv
  <2>3. QED
    BY <2>1, <2>2 DEF TypeInv, backend, book, session
<1>4. CASE SendStep
  <2>1. PICK c \in Calls : Sent(c)
    BY <1>4, SendStepSends
  <2>2. UNCHANGED <<backend, session>> /\ IsPage(page')
    BY <1>4, SendStepSends
  <2>3. PICK s \in Slots : calls[s] = Free /\ calls' = [calls EXCEPT ![s] = c]
    BY <2>1 DEF Sent
  <2>4. calls' \in [Slots -> {Free} \cup Calls]
        /\ \A z \in Slots : calls'[z] # Free => Sound(calls'[z])
    BY <2>1, <2>3 DEF TypeInv, Sent
  <2>5. ASSUME NEW z \in Slots PROVE Fits(calls'[z], page')
    <3>1. CASE z = s
      BY <2>1, <2>3, <3>1 DEF Sent, TypeInv
    <3>2. CASE z # s
      <4>1. calls'[z] = calls[z] /\ Fits(calls[z], page)
        BY <2>3, <3>2 DEF TypeInv
      <4>2. page'.kind = page.kind /\ (page.kind = "detail" => page'.item = page.item)
        BY <2>1 DEF Sent
      <4>3. QED
        BY <4>1, <4>2, StillFits
    <3>3. QED
      BY <3>1, <3>2
  <2>6. QED
    BY <2>2, <2>4, <2>5 DEF TypeInv, backend, book, session
<1>5. ASSUME NEW s \in Slots, calls[s].kind = "auth", Answer(s) PROVE TypeInv'
  <2>1. UNCHANGED <<book, details, files, page>>
    BY <1>5, AuthAnswered
  <2>2. PICK d : Becomes(s, d) /\ (d = Free \/ d.kind \in {"enter", "fallback"})
    BY <1>5, AuthAnswered
  <2>3. authToken' \in Tokens
    <3>1. \/ UNCHANGED session
          \/ authToken' = Bypass
          \/ walletAddress' \in Wallets /\ authToken' = Auth!Jwt(walletAddress')
      BY <1>5, AuthAnswered
    <3>2. QED
      BY <3>1 DEF Tokens, session, TypeInv
  <2>4. Fits(calls[s], page)
    BY DEF TypeInv
  <2>5. calls[s] # Free /\ (d # Free => d.at = calls[s].at)
    BY <1>5, <2>2, Answerable DEF Becomes
  <2>6. Fits(d, page)
    BY <1>5, <2>2, <2>4, <2>5 DEF Fits
  <2>7. \A z \in Slots : Fits(calls'[z], page')
    BY <2>1, <2>2, <2>6, BecomesTyped DEF TypeInv
  <2>8. QED
    BY <2>1, <2>2, <2>3, <2>7, BecomesTyped DEF TypeInv, book
<1>6. ASSUME NEW s \in Slots, calls[s].kind = "upload", Answer(s) PROVE TypeInv'
  <2>1. /\ UNCHANGED <<book, details, session>> /\ Becomes(s, Free)
        /\ files' \subseteq Files
        /\ IsPage(page') /\ page'.kind = page.kind
        /\ page.kind = "detail" => page'.item = page.item
    BY <1>6, UploadAnswered DEF IsPage, TypeInv
  <2>2. \A z \in Slots : Fits(calls'[z], page')
    <3>1. \A z \in Slots : Fits(calls[z], page')
      BY <2>1, StillFits DEF TypeInv
    <3>2. QED
      BY <2>1, <3>1, BecomesTyped DEF Fits
  <2>3. QED
    BY <2>1, <2>2, BecomesTyped DEF TypeInv, book, session
<1>7. ASSUME NEW s \in Slots, calls[s].kind = "create", Answer(s) PROVE TypeInv'
  <2>1. PICK d : Becomes(s, d) /\ (d = Free \/ d.kind = "open")
    BY <1>7, CreateAnswered
  <2>2. /\ UNCHANGED <<files, session>> /\ IsPage(page') /\ page'.kind = page.kind
        /\ page.kind = "detail" => page'.item = page.item
    BY <1>7, CreateAnswered DEF IsPage, TypeInv
  <2>3. \A z \in Slots : Fits(calls[z], page')
    BY <2>2, StillFits DEF TypeInv
  <2>4. calls[s] # Free /\ (d # Free => d.at = calls[s].at)
    BY <1>7, <2>1, Answerable DEF Becomes
  <2>5. Fits(d, page')
    BY <1>7, <2>1, <2>3, <2>4 DEF Fits
  <2>6. \A z \in Slots : Fits(calls'[z], page')
    BY <2>1, <2>3, <2>5, BecomesTyped
  <2>7. /\ DOMAIN details' = DOMAIN auctions'
        /\ \A i \in DOMAIN auctions' : IsRow(auctions'[i])
        /\ \A i \in DOMAIN details' : /\ details'[i].main \in Mains
                                      /\ details'[i].sub \in Subs[details'[i].main]
    <3>1. CASE UNCHANGED <<auctions, details>>
      BY <3>1 DEF TypeInv
    <3>2. CASE ~ UNCHANGED <<auctions, details>>
      <4>1. PICK i \in Items :
                  /\ DOMAIN auctions' = DOMAIN auctions \cup {i}
                  /\ DOMAIN details' = DOMAIN auctions'
                  /\ IsRow(auctions'[i]) /\ i \notin DOMAIN auctions
                  /\ details'[i].main \in Mains
                  /\ details'[i].sub \in Subs[details'[i].main]
                  /\ details'[i].image = calls[s].form.image
                  /\ \A j \in DOMAIN auctions : /\ auctions'[j] = auctions[j]
                                                /\ details'[j] = details[j]
        BY <1>7, <3>2, CreateAnswered
      <4>2. QED
        BY <4>1 DEF TypeInv
    <3>3. QED
      BY <3>1, <3>2
  <2>8. QED
    BY <2>1, <2>2, <2>6, <2>7, BecomesTyped DEF TypeInv, session
<1>8. ASSUME NEW s \in Slots, calls[s].kind = "close", Answer(s) PROVE TypeInv'
  <2>1. /\ UNCHANGED <<details, files, session, page>>
        /\ DOMAIN auctions' = DOMAIN auctions
        /\ \A i \in DOMAIN auctions : IsRow(auctions'[i])
    BY <1>8, CloseAnswered
  <2>2. PICK d : /\ Becomes(s, d)
                 /\ d = Free \/ (d.kind = "shown" /\ d.item = calls[s].item)
    BY <1>8, CloseAnswered
  <2>3. /\ calls[s] # Free /\ Fits(calls[s], page)
        /\ d # Free => d.at = calls[s].at
    BY <1>8, <2>2, Answerable DEF Becomes
  <2>4. Fits(d, page)
    BY <1>8, <2>2, <2>3 DEF Fits
  <2>5. \A z \in Slots : Fits(calls'[z], page')
    BY <2>1, <2>2, <2>4, BecomesTyped DEF TypeInv
  <2>6. QED
    BY <2>1, <2>2, <2>5, BecomesTyped DEF TypeInv, session
<1>9. ASSUME NEW s \in Slots, ClosedTimer(s) PROVE TypeInv'
  <2>1. /\ UNCHANGED <<backend, session>> /\ Becomes(s, Free)
        /\ IsPage(page') /\ page'.kind = page.kind
        /\ page.kind = "detail" => page'.item = page.item
    BY <1>9, ClosedTimerEnds DEF TypeInv
  <2>2. \A z \in Slots : Fits(calls[z], page')
    BY <2>1, StillFits DEF TypeInv
  <2>3. \A z \in Slots : Fits(calls'[z], page')
    BY <2>1, <2>2, BecomesTyped DEF Fits
  <2>4. QED
    BY <2>1, <2>3, BecomesTyped DEF TypeInv, backend, book, session
<1>10. CASE \E s \in Slots : Answer(s) \/ ClosedTimer(s)
  <2>1. \A s \in Slots : Answer(s) =>
            calls[s].kind \in {"auth", "upload", "create", "close"}
    BY DEF Answer
  <2>2. QED
    BY <1>5, <1>6, <1>7, <1>8, <1>9, <1>10, <2>1
<1>11. CASE \E token \in valid : TokenExpires(token)
  BY <1>11 DEF TokenExpires, TypeInv, book, session
<1>12. CASE UNCHANGED vars
  BY <1>12 DEF TypeInv, vars, backend, book, session
<1>13. QED
  BY <1>1, <1>2, <1>3, <1>4, <1>10, <1>11, <1>12, NextIsOneOf

LEMMA AlwaysTyped == Spec => []TypeInv
BY InitTyped, NextTyped, PTL DEF Spec

(***************************************************************************)
(* Every auction is of a main category of its subcategory, with a call's   *)
(* form outliving the page it was filled in on (CreateAuction.jsx:112).    *)
(***************************************************************************)
THEOREM SellerTypeCorrect == Spec => []TypeOK
<1>1. TypeInv => TypeOK
  <2> SUFFICES ASSUME TypeInv PROVE TypeOK
    OBVIOUS
  <2>1. page.kind = "create" => page.form.image \in Files \cup {None}
    BY CreatePageTyped DEF Forms
  <2>2. \A s \in Slots : calls[s] # Free => calls[s].at \in {"page", "tab", "gone"}
    BY DEF TypeInv, Calls
  <2>3. QED
    BY <2>1, <2>2 DEF TypeInv, TypeOK
<1>2. QED
  BY <1>1, AlwaysTyped, PTL

-----------------------------------------------------------------------------
(***************************************************************************)
(* The session.                                                            *)
(***************************************************************************)

\* Nobody, the developer bypass, or a wallet with a token issued to it.
SessionInv ==
    \/ authToken = None /\ walletAddress = None
    \/ authToken = Bypass /\ walletAddress = TestWallet
    \/ walletAddress \in Wallets /\ authToken = Auth!Jwt(walletAddress)

LEMMA SessionRecognised == SessionInv => SessionIsRecognised
<1> SUFFICES ASSUME SessionInv PROVE SessionIsRecognised
  OBVIOUS
<1>0. /\ None # Bypass /\ None # MockSignature /\ None \notin Wallets
      /\ TestWallet \in Wallets
  BY SellerConstants DEF Wallets
<1>1. CASE authToken = None /\ walletAddress = None
  <2>1. CallerOf(None) = None
    BY <1>0 DEF CallerOf, Auth!RequireAuth, Auth!FromApp, Auth!Request,
       Auth!NoClaim, Auth!Claim
  <2>2. QED
    BY <1>1, <2>1 DEF SessionIsRecognised
<1>2. CASE authToken = Bypass /\ walletAddress = TestWallet
  <2>1. CallerOf(Bypass) = TestWallet
    BY DEF CallerOf, Auth!RequireAuth, Auth!FromApp, Auth!Request
  <2>2. QED
    BY <1>0, <1>2, <2>1 DEF SessionIsRecognised
<1>3. CASE walletAddress \in Wallets /\ authToken = Auth!Jwt(walletAddress)
  <2>1. authToken \notin {None, Bypass} /\ authToken.wallet = walletAddress
    BY <1>3, SellerConstants DEF Auth!Jwt
  <2>2. CallerOf(authToken) \in {walletAddress, None}
    BY <2>1 DEF CallerOf, Auth!RequireAuth, Auth!FromApp, Auth!Request
  <2>3. QED
    BY <1>0, <1>3, <2>1, <2>2 DEF SessionIsRecognised
<1>4. QED
  BY <1>1, <1>2, <1>3 DEF SessionInv

LEMMA SessionKept == TypeInv /\ SessionInv /\ [Next]_vars => SessionInv'
<1> SUFFICES ASSUME TypeInv, SessionInv, [Next]_vars PROVE SessionInv'
  OBVIOUS
<1>1. ASSUME UNCHANGED session PROVE SessionInv'
  BY <1>1 DEF session, SessionInv
<1>2. CASE TurnStep
  <2>1. \/ UNCHANGED session
        \/ authToken' = None /\ walletAddress' = None
        \/ authToken' = Bypass /\ walletAddress' = TestWallet
    BY <1>2 DEF TurnStep, Navigate, Reload, HandleLogout, HandleBypassLogin,
       OpenAuction, LoginTimer, CreatedTimer
  <2>2. QED
    BY <1>1, <2>1 DEF SessionInv
<1>3. CASE FormStep
  BY <1>1, <1>3, FormStepKeeps
<1>4. CASE ArrivalStep
  BY <1>1, <1>4, ArrivalStepKeeps
<1>5. CASE SendStep
  BY <1>1, <1>5, SendStepSends
<1>6. ASSUME NEW s \in Slots, Answer(s) PROVE SessionInv'
  <2>1. CASE calls[s].kind = "auth"
    BY <1>1, <1>6, <2>1, AuthAnswered DEF SessionInv
  <2>2. CASE calls[s].kind = "upload"
    BY <1>1, <1>6, <2>2, UploadAnswered
  <2>3. CASE calls[s].kind = "create"
    BY <1>1, <1>6, <2>3, CreateAnswered
  <2>4. CASE calls[s].kind = "close"
    BY <1>1, <1>6, <2>4, CloseAnswered
  <2>5. QED
    BY <1>6, <2>1, <2>2, <2>3, <2>4 DEF Answer
<1>7. ASSUME NEW s \in Slots, ClosedTimer(s) PROVE SessionInv'
  BY <1>1, <1>7, ClosedTimerEnds
<1>8. CASE (\E token \in valid : TokenExpires(token)) \/ UNCHANGED vars
  BY <1>1, <1>8 DEF TokenExpires, vars
<1>9. QED
  BY <1>2, <1>3, <1>4, <1>5, <1>6, <1>7, <1>8, NextIsOneOf

(***************************************************************************)
(* The wallet the application shows is the one the backend takes its calls *)
(* to come from, as long as it accepts the token, whatever logins, timers  *)
(* and loads of the document come between (Login.jsx:57, keplr.js:156).    *)
(***************************************************************************)
THEOREM SellerSessionRecognised == Spec => []SessionIsRecognised
<1>1. Init => SessionInv
  BY DEF Init, SessionInv
<1>2. QED
  BY <1>1, SessionKept, SessionRecognised, AlwaysTyped, PTL DEF Spec

-----------------------------------------------------------------------------
(***************************************************************************)
(* Images.  The strengthening: what a form holds, on its page or in a call *)
(* under way, is there too.                                                *)
(***************************************************************************)

ImageInv ==
    /\ ImageIsServed
    /\ page.kind = "create" => page.form.image \in files \cup {None}
    /\ \A s \in Slots :
           calls[s] # Free /\ calls[s].kind = "create" => calls[s].form.image \in files

LEMMA ImageKept == TypeInv /\ ImageInv /\ [Next]_vars => ImageInv'
<1> SUFFICES ASSUME TypeInv, ImageInv, [Next]_vars PROVE ImageInv'
  OBVIOUS
<1>1. ASSUME UNCHANGED <<details, files>>,
             page'.kind = "create" =>
                 \/ page'.form.image = None
                 \/ page.kind = "create" /\ page'.form.image = page.form.image,
             \A s \in Slots : calls'[s] # Free /\ calls'[s].kind = "create" =>
                 /\ calls[s] # Free /\ calls[s].kind = "create"
                 /\ calls'[s].form = calls[s].form
      PROVE  ImageInv'
  BY <1>1 DEF ImageInv, ImageIsServed
<1>2. CASE TurnStep
  <2>1. Turned /\ UNCHANGED <<auctions, details, files>>
    BY <1>2, TurnStepTurns
  <2>2. page' = page \/ (page'.kind = "create" => page'.form.image = None)
    BY <2>1, FreshIsPage DEF Turned
  <2>3. \A s \in Slots : calls'[s] # Free /\ calls'[s].kind = "create" =>
                 /\ calls[s] # Free /\ calls[s].kind = "create"
                 /\ calls'[s].form = calls[s].form
    BY <2>1 DEF Turned, LeftBehind
  <2>4. QED
    BY <1>1, <2>1, <2>2, <2>3
<1>3. CASE FormStep
  BY <1>1, <1>3, FormStepKeeps DEF backend
<1>4. CASE ArrivalStep
  BY <1>1, <1>4, ArrivalStepKeeps DEF backend
<1>5. CASE SendStep
  <2>1. PICK c \in Calls :
            /\ Sent(c)
            /\ c.kind = "create" => page.kind = "create" /\ c.form = page.form
    BY <1>5, SendStepSends
  <2>2. UNCHANGED <<details, files>>
    BY <1>5, SendStepSends DEF backend
  <2>3. PICK s \in Slots : calls[s] = Free /\ calls' = [calls EXCEPT ![s] = c]
    BY <2>1 DEF Sent
  <2>4. page'.kind = "create" =>
            page.kind = "create" /\ page'.form.image = page.form.image
    BY <2>1, CreatePageTyped DEF Sent
  <2>5. c.kind = "create" => c.form.image \in files
    BY <2>1 DEF Sent, Sound, ImageInv
  <2>6. QED
    BY <2>2, <2>3, <2>4, <2>5 DEF ImageInv, ImageIsServed, TypeInv
<1>6. ASSUME NEW s \in Slots, calls[s].kind = "auth", Answer(s) PROVE ImageInv'
  <2>1. PICK d : /\ Becomes(s, d)
                 /\ \/ d = Free
                    \/ d.kind \in {"enter", "fallback"}
    BY <1>6, AuthAnswered
  <2>2. UNCHANGED <<details, files, page>>
    BY <1>6, AuthAnswered
  <2>3. QED
    BY <1>1, <2>1, <2>2, BecomesTyped
<1>7. ASSUME NEW s \in Slots, calls[s].kind = "upload", Answer(s) PROVE ImageInv'
  <2>1. /\ UNCHANGED <<book, details, session>> /\ Becomes(s, Free)
        /\ files \subseteq files'
        /\ page' = page \/ page'.form.image \in files'
    BY <1>7, UploadAnswered
  <2>2. \A z \in Slots : calls'[z] \in {calls[z], Free}
    BY <2>1, BecomesTyped
  <2>3. QED
    BY <2>1, <2>2 DEF ImageInv, ImageIsServed
<1>8. ASSUME NEW s \in Slots, calls[s].kind = "create", Answer(s) PROVE ImageInv'
  <2>1. PICK d : Becomes(s, d) /\ (d = Free \/ d.kind = "open")
    BY <1>8, CreateAnswered
  <2>2. /\ UNCHANGED files
        /\ page' = page \/ (page.kind = "create" /\ page'.form = page.form)
    BY <1>8, CreateAnswered
  <2>3. calls[s] # Free
    BY <1>8, Answerable
  <2>4. ImageIsServed'
    <3>1. CASE UNCHANGED <<auctions, details>>
      BY <2>2, <3>1 DEF ImageInv, ImageIsServed
    <3>2. CASE ~ UNCHANGED <<auctions, details>>
      <4>1. PICK i \in Items :
                  /\ DOMAIN auctions' = DOMAIN auctions \cup {i}
                  /\ DOMAIN details' = DOMAIN auctions'
                  /\ IsRow(auctions'[i]) /\ i \notin DOMAIN auctions
                  /\ details'[i].main \in Mains
                  /\ details'[i].sub \in Subs[details'[i].main]
                  /\ details'[i].image = calls[s].form.image
                  /\ \A j \in DOMAIN auctions : /\ auctions'[j] = auctions[j]
                                                /\ details'[j] = details[j]
        BY <1>8, <3>2, CreateAnswered
      <4>2. calls[s].form.image \in files
        BY <1>8, <2>3 DEF ImageInv
      <4>3. QED
        BY <2>2, <4>1, <4>2 DEF ImageInv, ImageIsServed, TypeInv
    <3>3. QED
      BY <3>1, <3>2
  <2>5. QED
    BY <2>1, <2>2, <2>4, BecomesTyped DEF ImageInv
<1>9. ASSUME NEW s \in Slots, calls[s].kind = "close", Answer(s) PROVE ImageInv'
  <2>1. PICK d : Becomes(s, d) /\ (d = Free \/ d.kind = "shown")
    BY <1>9, CloseAnswered
  <2>2. UNCHANGED <<details, files, page>>
    BY <1>9, CloseAnswered
  <2>3. QED
    BY <1>1, <2>1, <2>2, BecomesTyped
<1>10. ASSUME NEW s \in Slots, ClosedTimer(s) PROVE ImageInv'
  <2>1. /\ UNCHANGED <<details, files>> /\ Becomes(s, Free)
        /\ page' = page \/ page'.kind = "detail"
    BY <1>10, ClosedTimerEnds DEF backend
  <2>2. QED
    BY <1>1, <2>1, BecomesTyped
<1>11. CASE (\E token \in valid : TokenExpires(token)) \/ UNCHANGED vars
  BY <1>1, <1>11 DEF TokenExpires, vars, backend
<1>12. CASE \E s \in Slots : Answer(s) \/ ClosedTimer(s)
  <2>1. \A s \in Slots : Answer(s) =>
            calls[s].kind \in {"auth", "upload", "create", "close"}
    BY DEF Answer
  <2>2. QED
    BY <1>6, <1>7, <1>8, <1>9, <1>10, <1>12, <2>1
<1>13. QED
  BY <1>2, <1>3, <1>4, <1>5, <1>11, <1>12, NextIsOneOf

(***************************************************************************)
(* The image of every auction is a file the backend has written, although  *)
(* uploads overlap and the form is sent while others are under way         *)
(* (CreateAuction.jsx:132, uploadController.js:59).                        *)
(***************************************************************************)
THEOREM SellerImageServed == Spec => []ImageIsServed
<1>1. Init => ImageInv
  BY DEF Init, ImageInv, ImageIsServed, LoginPage
<1>2. ImageInv => ImageIsServed
  BY DEF ImageInv
<1>3. QED
  BY <1>1, <1>2, ImageKept, AlwaysTyped, PTL DEF Spec

-----------------------------------------------------------------------------
(***************************************************************************)
(* Ended auctions.  The strengthening: the timer that will show an auction *)
(* as ended runs only for one that has; and ended auctions stay ended.     *)
(***************************************************************************)

Ended(item) == item \in DOMAIN auctions /\ auctions[item].auction_status = "ended"

EndedInv ==
    /\ page.kind = "detail" /\ page.status = "ended" => Ended(page.item)
    /\ \A s \in Slots :
           calls[s] # Free /\ calls[s].kind = "shown" => Ended(calls[s].item)

LEMMA EndedStays ==
  ASSUME TypeInv, [Next]_vars
  PROVE  \A i : i \in DOMAIN auctions /\ auctions[i].auction_status = "ended" =>
             i \in DOMAIN auctions' /\ auctions'[i].auction_status = "ended"
<1>1. CASE UNCHANGED auctions
  BY <1>1
<1>2. ASSUME NEW s \in Slots, calls[s].kind = "create", Answer(s),
             ~ UNCHANGED auctions
      PROVE  \A i \in DOMAIN auctions :
                 i \in DOMAIN auctions' /\ auctions'[i] = auctions[i]
  BY <1>2, CreateAnswered
<1>3. ASSUME NEW s \in Slots, calls[s].kind = "close", Answer(s)
      PROVE  \A i \in DOMAIN auctions :
                 /\ i \in DOMAIN auctions'
                 /\ auctions[i].auction_status = "ended" =>
                        auctions'[i].auction_status = "ended"
  BY <1>3, CloseAnswered DEF Status
<1>4. ASSUME NEW s \in Slots, calls[s].kind \in {"auth", "upload"}, Answer(s)
      PROVE  UNCHANGED auctions
  BY <1>4, AuthAnswered, UploadAnswered DEF book
<1>5. CASE \E s \in Slots : Answer(s) \/ ClosedTimer(s)
  <2>1. \A s \in Slots : Answer(s) =>
            calls[s].kind \in {"auth", "upload", "create", "close"}
    BY DEF Answer
  <2>2. \A s \in Slots : ClosedTimer(s) => UNCHANGED auctions
    BY DEF ClosedTimer, backend, book
  <2>3. QED
    BY <1>1, <1>2, <1>3, <1>4, <1>5, <2>1, <2>2
<1>6. TurnStep \/ FormStep \/ ArrivalStep \/ SendStep => UNCHANGED auctions
  BY TurnStepTurns, FormStepKeeps, ArrivalStepKeeps, SendStepSends DEF backend, book
<1>7. (\E token \in valid : TokenExpires(token)) \/ UNCHANGED vars
          => UNCHANGED auctions
  BY DEF TokenExpires, vars, backend, book
<1>8. QED
  BY <1>1, <1>5, <1>6, <1>7, NextIsOneOf

LEMMA EndedKept == TypeInv /\ EndedInv /\ [Next]_vars => EndedInv'
<1> SUFFICES ASSUME TypeInv, EndedInv, [Next]_vars PROVE EndedInv'
  OBVIOUS
<1>0. \A i : Ended(i) => i \in DOMAIN auctions' /\ auctions'[i].auction_status = "ended"
  BY EndedStays DEF Ended
<1>1. ASSUME page'.kind = "detail" /\ page'.status = "ended" =>
                 \/ page' = page
                 \/ page.kind = "detail" /\ page.status = "ended" /\ page'.item = page.item
                 \/ Ended(page'.item),
             \A s \in Slots : calls'[s] # Free /\ calls'[s].kind = "shown" =>
                 /\ calls[s] # Free /\ calls[s].kind = "shown"
                 /\ calls'[s].item = calls[s].item
      PROVE  EndedInv'
  BY <1>0, <1>1 DEF EndedInv, Ended
<1>2. CASE TurnStep
  <2>1. Turned
    BY <1>2, TurnStepTurns
  <2>2. page' = page \/ (page'.kind = "detail" => page'.status = None)
    BY <2>1, FreshIsPage DEF Turned
  <2>3. \A s \in Slots : calls'[s] # Free /\ calls'[s].kind = "shown" =>
                 /\ calls[s] # Free /\ calls[s].kind = "shown"
                 /\ calls'[s].item = calls[s].item
    BY <2>1 DEF Turned, LeftBehind
  <2>4. None # "ended"
    BY SellerConstants
  <2>5. QED
    BY <1>1, <2>2, <2>3, <2>4
<1>3. CASE FormStep
  BY <1>1, <1>3, FormStepKeeps
<1>4. CASE ArrivalStep
  <2>1. /\ UNCHANGED calls /\ page'.kind = page.kind
        /\ page.kind = "detail" =>
               /\ page'.item = page.item
               /\ \/ page'.status = page.status
                  \/ /\ page.item \in DOMAIN auctions
                     /\ page'.status = Status(page.item)
    BY <1>4, ArrivalStepKeeps
  <2>2. page'.kind = "detail" /\ page'.status = "ended" =>
            \/ page.kind = "detail" /\ page.status = "ended" /\ page'.item = page.item
            \/ Ended(page'.item)
    BY <2>1 DEF Status, Ended
  <2>3. QED
    BY <1>1, <2>1, <2>2
<1>5. CASE SendStep
  <2>1. PICK c \in Calls :
            Sent(c) /\ c.kind \in {"auth", "upload", "create", "close"}
    BY <1>5, SendStepSends
  <2>2. PICK s \in Slots : calls[s] = Free /\ calls' = [calls EXCEPT ![s] = c]
    BY <2>1 DEF Sent
  <2>3. page' = page \/ page'.kind # "detail"
    BY <2>1 DEF Sent
  <2>4. \A z \in Slots : calls'[z] = calls[z] \/ calls'[z] = c
    BY <2>2 DEF TypeInv
  <2>5. QED
    BY <1>1, <2>1, <2>3, <2>4
<1>6. ASSUME NEW s \in Slots, calls[s].kind = "auth", Answer(s) PROVE EndedInv'
  <2>1. PICK d : /\ Becomes(s, d)
                 /\ \/ d = Free
                    \/ d.kind \in {"enter", "fallback"}
    BY <1>6, AuthAnswered
  <2>2. page' = page
    BY <1>6, AuthAnswered
  <2>3. QED
    BY <1>1, <2>1, <2>2, BecomesTyped
<1>7. ASSUME NEW s \in Slots, calls[s].kind = "upload", Answer(s) PROVE EndedInv'
  <2>1. Becomes(s, Free) /\ (page' = page \/ page'.kind = "create")
    BY <1>7, UploadAnswered
  <2>2. QED
    BY <1>1, <2>1, BecomesTyped
<1>8. ASSUME NEW s \in Slots, calls[s].kind = "create", Answer(s) PROVE EndedInv'
  <2>1. PICK d : Becomes(s, d) /\ (d = Free \/ d.kind = "open")
    BY <1>8, CreateAnswered
  <2>2. page' = page \/ page'.kind = "create"
    BY <1>8, CreateAnswered
  <2>3. QED
    BY <1>1, <2>1, <2>2, BecomesTyped
<1>9. ASSUME NEW s \in Slots, calls[s].kind = "close", Answer(s) PROVE EndedInv'
  <2>1. PICK d : /\ Becomes(s, d)
                 /\ \/ d = Free
                    \/ /\ d.kind = "shown"
                       /\ d.item \in DOMAIN auctions'
                       /\ auctions'[d.item].auction_status = "ended"
    BY <1>9, CloseAnswered
  <2>2. page' = page
    BY <1>9, CloseAnswered
  <2>3. QED
    BY <1>0, <2>1, <2>2, BecomesTyped DEF EndedInv, Ended
<1>10. ASSUME NEW s \in Slots, ClosedTimer(s) PROVE EndedInv'
  <2>1. /\ Becomes(s, Free) /\ calls[s].kind = "shown"
        /\ \/ page' = page
           \/ page.item = calls[s].item /\ page'.item = page.item
    BY <1>10, ClosedTimerEnds
  <2>2. Ended(calls[s].item)
    BY <2>1, Answerable DEF EndedInv
  <2>3. QED
    BY <1>1, <2>1, <2>2, BecomesTyped
<1>11. CASE (\E token \in valid : TokenExpires(token)) \/ UNCHANGED vars
  BY <1>1, <1>11 DEF TokenExpires, vars
<1>12. CASE \E s \in Slots : Answer(s) \/ ClosedTimer(s)
  <2>1. \A s \in Slots : Answer(s) =>
            calls[s].kind \in {"auth", "upload", "create", "close"}
    BY DEF Answer
  <2>2. QED
    BY <1>6, <1>7, <1>8, <1>9, <1>10, <1>12, <2>1
<1>13. QED
  BY <1>2, <1>3, <1>4, <1>5, <1>11, <1>12, NextIsOneOf

(***************************************************************************)
(* A page says that an auction has ended only if it has: no lost or late   *)
(* answer, second press or timer makes it say so (AuctionDetail.jsx:59).   *)
(***************************************************************************)
THEOREM SellerEndedIsEnded == Spec => []EndedIsEnded
<1>1. Init => EndedInv
  BY DEF Init, EndedInv, LoginPage
<1>2. EndedInv => EndedIsEnded
  BY DEF EndedInv, EndedIsEnded, Ended, Status
<1>3. QED
  BY <1>1, <1>2, EndedKept, AlwaysTyped, PTL DEF Spec

-----------------------------------------------------------------------------
(***************************************************************************)
(* Disabled buttons.                                                       *)
(***************************************************************************)

\* The calls and timers a disabled button of a page of this kind waits for.
Awaited(kind) ==
    CASE kind = "login" -> {"auth", "enter", "fallback"}
      [] kind = "create" -> {"create"}
      [] OTHER -> {}

Waits(s) == calls[s].kind \in Awaited(page.kind) /\ calls[s].at = "page"

LEMMA BusyKept == TypeInv /\ BusyHasACall /\ [Next]_vars => BusyHasACall'
<1> SUFFICES ASSUME TypeInv, BusyHasACall, [Next]_vars PROVE BusyHasACall'
  OBVIOUS
<1>0. Free.kind = "free"
  BY DEF Free
<1>1. ASSUME page'.kind = page.kind,
             page.kind \in {"login", "create"} /\ page'.loading => page.loading,
             \A z \in Slots : Waits(z) =>
                 calls'[z].kind \in Awaited(page.kind) /\ calls'[z].at = "page"
      PROVE  BusyHasACall'
  BY <1>1 DEF BusyHasACall, Waits, Awaited
<1>2. ASSUME page'.kind \in {"login", "create"} => ~ page'.loading
      PROVE  BusyHasACall'
  BY <1>2 DEF BusyHasACall
<1>3. CASE TurnStep
  <2>1. Turned
    BY <1>3, TurnStepTurns
  <2>2. CASE Fresh(page')
    BY <1>2, <2>2, FreshIsPage
  <2>3. CASE /\ page' = page
             /\ \A z \in Slots : \/ calls'[z] = calls[z]
                                 \/ calls[z].kind = "open" /\ calls'[z] = Free
    BY <1>1, <2>3 DEF Waits, Awaited
  <2>4. QED
    BY <2>1, <2>2, <2>3 DEF Turned
<1>4. CASE FormStep
  BY <1>1, <1>4, FormStepKeeps DEF Waits
<1>5. CASE ArrivalStep
  BY <1>2, <1>5, ArrivalStepKeeps
<1>6. CASE SendStep
  <2>1. PICK c \in Calls : Sent(c)
    BY <1>6, SendStepSends
  <2>2. PICK s \in Slots : calls[s] = Free /\ calls' = [calls EXCEPT ![s] = c]
    BY <2>1 DEF Sent
  <2>3. calls'[s] = c /\ \A z \in Slots \ {s} : calls'[z] = calls[z]
    BY <2>2 DEF TypeInv
  <2>4. CASE page' = page
    <3>1. \A z \in Slots : Waits(z) => z # s
      BY <1>0, <2>2 DEF Waits, Awaited
    <3>2. QED
      BY <1>1, <2>3, <2>4, <3>1 DEF Waits
  <2>5. CASE /\ page'.kind = page.kind /\ c.at = "page"
             /\ \/ page.kind = "login" /\ c.kind = "auth"
                \/ page.kind = "create" /\ c.kind = "create"
    BY <2>3, <2>5 DEF BusyHasACall
  <2>6. QED
    BY <2>1, <2>4, <2>5 DEF Sent
<1>7. ASSUME NEW s \in Slots, calls[s].kind = "auth", Answer(s)
      PROVE  BusyHasACall'
  <2>1. PICK d : /\ Becomes(s, d)
                 /\ \/ d = Free /\ calls[s].at = "gone"
                    \/ d # Free /\ d.kind \in {"enter", "fallback"}
    BY <1>7, AuthAnswered
  <2>2. page' = page /\ (d # Free => d.at = calls[s].at)
    BY <1>7, <2>1, AuthAnswered DEF Becomes
  <2>3. ASSUME NEW z \in Slots, Waits(z)
        PROVE  calls'[z].kind \in Awaited(page.kind) /\ calls'[z].at = "page"
    <3>1. CASE z = s
      <4>1. calls[s].at = "page" /\ page.kind = "login"
        BY <1>7, <2>3, <3>1 DEF Waits, Awaited
      <4>2. calls'[z] = d /\ d.kind \in {"enter", "fallback"} /\ d.at = "page"
        BY <2>1, <2>2, <3>1, <4>1, BecomesTyped
      <4>3. QED
        BY <4>1, <4>2 DEF Awaited
    <3>2. CASE z # s
      BY <2>1, <2>3, <3>2, BecomesTyped DEF Waits
    <3>3. QED
      BY <3>1, <3>2
  <2>4. QED
    BY <1>1, <2>2, <2>3
<1>8. ASSUME NEW s \in Slots, calls[s].kind = "upload", Answer(s)
      PROVE  BusyHasACall'
  <2>1. /\ Becomes(s, Free) /\ page'.kind = page.kind
        /\ page.kind \in {"login", "create"} => page'.loading = page.loading
    BY <1>8, UploadAnswered
  <2>2. \A z \in Slots : Waits(z) => calls'[z] = calls[z]
    BY <1>8, <2>1, BecomesTyped DEF Waits, Awaited
  <2>3. QED
    BY <1>1, <2>1, <2>2 DEF Waits
<1>9. ASSUME NEW s \in Slots, calls[s].kind = "create", Answer(s)
      PROVE  BusyHasACall'
  <2>1. PICK d : Becomes(s, d)
    BY <1>9, CreateAnswered
  <2>2. CASE page' = page /\ calls[s].at # "page"
    <3>1. \A z \in Slots : Waits(z) => calls'[z] = calls[z]
      BY <2>1, <2>2, BecomesTyped DEF Waits
    <3>2. QED
      BY <1>1, <2>2, <3>1 DEF Waits
  <2>3. CASE ~ (page' = page /\ calls[s].at # "page")
    <3>1. ~ page'.loading
      BY <1>9, <2>3, CreateAnswered
    <3>2. QED
      BY <1>2, <3>1
  <2>4. QED
    BY <2>2, <2>3
<1>10. ASSUME NEW s \in Slots, calls[s].kind = "close", Answer(s)
       PROVE  BusyHasACall'
  <2>1. PICK d : Becomes(s, d)
    BY <1>10, CloseAnswered
  <2>2. page' = page
    BY <1>10, CloseAnswered
  <2>3. \A z \in Slots : Waits(z) => calls'[z] = calls[z]
    BY <1>10, <2>1, BecomesTyped DEF Waits, Awaited
  <2>4. QED
    BY <1>1, <2>2, <2>3 DEF Waits
<1>11. ASSUME NEW s \in Slots, ClosedTimer(s) PROVE BusyHasACall'
  <2>1. /\ Becomes(s, Free) /\ calls[s].kind = "shown"
        /\ page' = page \/ page'.kind = "detail"
    BY <1>11, ClosedTimerEnds
  <2>2. \A z \in Slots : Waits(z) => calls'[z] = calls[z]
    BY <2>1, BecomesTyped DEF Waits, Awaited
  <2>3. QED
    BY <1>1, <1>2, <2>1, <2>2 DEF Waits
<1>12. CASE (\E token \in valid : TokenExpires(token)) \/ UNCHANGED vars
  BY <1>1, <1>12 DEF TokenExpires, vars, Waits
<1>13. CASE \E s \in Slots : Answer(s) \/ ClosedTimer(s)
  <2>1. \A s \in Slots : Answer(s) =>
            calls[s].kind \in {"auth", "upload", "create", "close"}
    BY DEF Answer
  <2>2. QED
    BY <1>7, <1>8, <1>9, <1>10, <1>11, <1>13, <2>1
<1>14. QED
  BY <1>3, <1>4, <1>5, <1>6, <1>12, <1>13, NextIsOneOf

(***************************************************************************)
(* The buttons of the login page and of the form are disabled only while a *)
(* call or a timer of that page is under way which gives them back         *)
(* (Login.jsx:46, CreateAuction.jsx:208).                                  *)
(***************************************************************************)
THEOREM SellerBusyHasACall == Spec => []BusyHasACall
<1>1. Init => BusyHasACall
  BY DEF Init, BusyHasACall, LoginPage
<1>2. QED
  BY <1>1, BusyKept, AlwaysTyped, PTL DEF Spec

-----------------------------------------------------------------------------
(***************************************************************************)
(* The application and the backend.                                        *)
(***************************************************************************)

LEMMA CallerIsKnown ==
  ASSUME NEW token \in Tokens
  PROVE  CallerOf(token) \in Wallets \cup {None}
<1>0. /\ None # Bypass /\ None # MockSignature
      /\ TestWallet \in Wallets
  BY SellerConstants DEF Wallets
<1>1. CASE token = None
  BY <1>0, <1>1 DEF CallerOf, Auth!RequireAuth, Auth!FromApp, Auth!Request,
                    Auth!NoClaim, Auth!Claim
<1>2. CASE token = Bypass
  BY <1>0, <1>2 DEF CallerOf, Auth!RequireAuth, Auth!FromApp, Auth!Request
<1>3. ASSUME NEW w \in Wallets, token = Auth!Jwt(w)
      PROVE  CallerOf(token) \in Wallets \cup {None}
  <2>1. token \notin {None, Bypass} /\ token.wallet = w
    BY <1>3, SellerConstants DEF Auth!Jwt
  <2>2. QED
    BY <2>1 DEF CallerOf, Auth!RequireAuth, Auth!FromApp, Auth!Request
<1>4. QED
  BY <1>1, <1>2, <1>3 DEF Tokens

LEMMA StepIsOfTheBook ==
  ASSUME TypeInv, [Next]_vars
  PROVE  [Book!Next]_<<auctions, sealed, answers, settled>>
<1>1. CASE TurnStep
  BY <1>1 DEF TurnStep, Navigate, Reload, HandleLogout, HandleBypassLogin,
              OpenAuction, LoginTimer, CreatedTimer, backend, book
<1>2. CASE FormStep
  BY <1>2, FormStepKeeps DEF backend, book
<1>3. CASE ArrivalStep
  BY <1>3, ArrivalStepKeeps DEF backend, book
<1>4. CASE SendStep
  BY <1>4, SendStepSends DEF backend, book
<1>5. ASSUME NEW s \in Slots, ClosedTimer(s)
      PROVE  UNCHANGED book
  BY <1>5, ClosedTimerEnds DEF backend
<1>6. CASE (\E token \in valid : TokenExpires(token)) \/ UNCHANGED vars
  BY <1>6 DEF TokenExpires, vars, backend, book
<1>7. ASSUME NEW s \in Slots, Answer(s)
      PROVE  Book!Next \/ UNCHANGED book
  <2> DEFINE c == calls[s]
  <2>1. \/ UNCHANGED book
        \/ c.kind = "create" /\ \E i \in Items : CreateAuction(c, i)
        \/ c.kind = "close" /\ UpdateAuctionStatus(c)
    BY <1>7 DEF Answer, Verify, UploadImage, backend
  <2>2. ASSUME c.kind \in {"create", "close"}, CallerOf(c.token) # None
        PROVE  CallerOf(c.token) \in Wallets
    <3>1. c \in Calls
      BY <2>2, Answerable
    <3>2. QED
      BY <2>2, <3>1, CallerIsKnown DEF Calls
  <2>3. ASSUME NEW i \in Items, c.kind = "create", CreateAuction(c, i)
        PROVE  Book!Next
    BY <2>2, <2>3 DEF CreateAuction, Book!Next
  <2>4. ASSUME c.kind = "close", UpdateAuctionStatus(c)
        PROVE  Book!Next
    <3>1. c.item \in Items
      BY <2>4, Answerable DEF Sound
    <3>2. QED
      BY <2>2, <2>4, <3>1 DEF UpdateAuctionStatus, Book!Next
  <2>5. QED
    BY <2>1, <2>3, <2>4
<1>8. QED
  BY <1>1, <1>2, <1>3, <1>4, <1>5, <1>6, <1>7, NextIsOneOf DEF book

\* Whatever the application does, with sessions that run out and calls that
\* outlive their pages, it does to the backend only what its endpoints allow
\* (CreateAuction.jsx:175, AuctionDetail.jsx:56): with an empty book at first,
\* the composition of the application and the backend is a run of AuctionBook.
THEOREM SellerKeepsToTheBook == Spec => Book!Spec
<1>1. Init => Book!Init
  BY DEF Init
<1>2. TypeInv /\ [Next]_vars =>
          [Book!Next]_<<auctions, sealed, answers, settled>>
  BY StepIsOfTheBook
<1>3. QED
  BY <1>1, <1>2, AlwaysTyped, PTL DEF Spec, Book!Spec, Book!vars
=============================================================================
