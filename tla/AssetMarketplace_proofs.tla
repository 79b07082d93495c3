----------------------- MODULE AssetMarketplace_proofs -----------------------
(***************************************************************************)
(* Proofs about AssetMarketplace for any traders, assets, listings,        *)
(* payments and requests.                                                  *)
(***************************************************************************)
EXTENDS AssetMarketplace, TLAPS

Owners == Traders \cup {Nobody}
TxIds == Payments \cup {NoPayment}
Slugs == Assets \cup {NoSlug}
AssetRows == [status: {"absent", "ACTIVE", "ON_SALE"}, owner: Owners, tx: TxIds]
ListingRows == [status: {"absent", "ACTIVE", "SOLD", "CANCELLED"}, asset: Slugs,
                seller: Owners, payment: TxIds]
MarketSteps == [pc: MarketPc, asset: Slugs, listing: Listings \cup {NoSlug}, user: Owners,
                payment: TxIds, read: {"absent", "ACTIVE"}]

\* What a request at work knows of the row it has read: rows stay, a listing
\* keeps its asset and its seller, and the status was ACTIVE.
RequestsRemember ==
    \A r \in Requests :
        /\ marketReq[r].pc \in {"list", "cancel", "payment", "buy"} =>
               marketReq[r].asset \in Assets /\ marketReq[r].read = "ACTIVE"
        /\ marketReq[r].pc = "provision" => marketReq[r].asset \in Assets
        /\ marketReq[r].pc \in {"cancel", "payment", "buy"} =>
               /\ marketReq[r].listing \in Listings
               /\ listing[marketReq[r].listing].status # "absent"
               /\ listing[marketReq[r].listing].asset = marketReq[r].asset
        /\ marketReq[r].pc = "cancel" =>
               listing[marketReq[r].listing].seller = marketReq[r].user

\* A listing is of an asset.
ListingsNameAssets ==
    \A l \in Listings : listing[l].status # "absent" => listing[l].asset \in Assets

MarketInv ==
    /\ MarketTypeOK /\ OnePurchasePerPayment /\ OffersMatchAssets
    /\ RequestsRemember /\ ListingsNameAssets

-----------------------------------------------------------------------------
(* Rows and slots                                                            *)

\* A request that starts or goes on holds that step; the others hold theirs.
LEMMA MarketSlot ==
    ASSUME marketReq \in [Requests -> MarketSteps], NEW r \in Requests,
           NEW pc \in MarketPc, NEW a \in Slugs, NEW l \in Listings \cup {NoSlug},
           NEW u \in Owners, NEW p \in TxIds, NEW s \in {"absent", "ACTIVE"},
           StartMarket(r, MarketStep(pc, a, l, u, p, s))
    PROVE  /\ marketReq' \in [Requests -> MarketSteps]
           /\ marketReq'[r].pc = pc /\ marketReq'[r].asset = a /\ marketReq'[r].listing = l
           /\ marketReq'[r].user = u /\ marketReq'[r].payment = p /\ marketReq'[r].read = s
           /\ \A x \in Requests : x # r => marketReq'[x] = marketReq[x]
  <1> DEFINE v == MarketStep(pc, a, l, u, p, s)
  <1>1. /\ v \in MarketSteps /\ v.pc = pc /\ v.asset = a /\ v.listing = l /\ v.user = u
        /\ v.payment = p /\ v.read = s
    BY DEF MarketSteps, MarketStep
  <1>2. marketReq' = [marketReq EXCEPT ![r] = v]
    BY DEF StartMarket
  <1> HIDE DEF v
  <1>3. marketReq' \in [Requests -> MarketSteps] /\ marketReq'[r] = v
    BY <1>1, <1>2
  <1>4. \A x \in Requests : x # r => marketReq'[x] = marketReq[x]
    BY <1>2
  <1>5. QED BY <1>1, <1>3, <1>4

\* A request that ends is idle.
LEMMA MarketEndSlot ==
    ASSUME marketReq \in [Requests -> MarketSteps], NEW r \in Requests, EndMarket(r)
    PROVE  /\ marketReq' \in [Requests -> MarketSteps] /\ marketReq'[r].pc = "idle"
           /\ \A x \in Requests : x # r => marketReq'[x] = marketReq[x]
  <1>1. StartMarket(r, MarketStep("idle", NoSlug, NoSlug, Nobody, NoPayment, "absent"))
    BY DEF EndMarket, MarketIdle, StartMarket
  <1>2. /\ "idle" \in MarketPc /\ NoSlug \in Slugs /\ NoPayment \in TxIds
        /\ Nobody \in Owners /\ "absent" \in {"absent", "ACTIVE"}
    BY DEF MarketPc, Slugs, TxIds, Owners
  <1>3. QED BY <1>1, <1>2, MarketSlot

\* An update of one asset leaves the others alone.
LEMMA StoreAsset ==
    ASSUME asset \in [Assets -> AssetRows], NEW a \in Assets, NEW s \in {"absent", "ACTIVE", "ON_SALE"},
           NEW u \in Owners, NEW p \in TxIds, asset' = [asset EXCEPT ![a] = AssetRow(s, u, p)]
    PROVE  /\ asset' \in [Assets -> AssetRows]
           /\ asset'[a].status = s /\ asset'[a].owner = u /\ asset'[a].tx = p
           /\ \A x \in Assets : x # a => asset'[x] = asset[x]
  <1> DEFINE v == AssetRow(s, u, p)
  <1>1. v \in AssetRows /\ v.status = s /\ v.owner = u /\ v.tx = p
    BY DEF AssetRows, AssetRow
  <1>2. asset' = [asset EXCEPT ![a] = v]
    OBVIOUS
  <1> HIDE DEF v
  <1>3. asset' \in [Assets -> AssetRows] /\ asset'[a] = v
    BY <1>1, <1>2
  <1>4. \A x \in Assets : x # a => asset'[x] = asset[x]
    BY <1>2
  <1>5. QED BY <1>1, <1>3, <1>4

\* An update of one listing leaves the others alone.
LEMMA StoreListing ==
    ASSUME listing \in [Listings -> ListingRows], NEW l \in Listings,
           NEW s \in {"absent", "ACTIVE", "SOLD", "CANCELLED"}, NEW a \in Slugs,
           NEW u \in Owners, NEW p \in TxIds,
           listing' = [listing EXCEPT ![l] = ListingRow(s, a, u, p)]
    PROVE  /\ listing' \in [Listings -> ListingRows]
           /\ listing'[l].status = s /\ listing'[l].asset = a /\ listing'[l].seller = u
           /\ listing'[l].payment = p
           /\ \A x \in Listings : x # l => listing'[x] = listing[x]
  <1> DEFINE v == ListingRow(s, a, u, p)
  <1>1. v \in ListingRows /\ v.status = s /\ v.asset = a /\ v.seller = u /\ v.payment = p
    BY DEF ListingRows, ListingRow
  <1>2. listing' = [listing EXCEPT ![l] = v]
    OBVIOUS
  <1> HIDE DEF v
  <1>3. listing' \in [Listings -> ListingRows] /\ listing'[l] = v
    BY <1>1, <1>2
  <1>4. \A x \in Listings : x # l => listing'[x] = listing[x]
    BY <1>2
  <1>5. QED BY <1>1, <1>3, <1>4

\* The types of what is stored.
LEMMA MarketRowTypes ==
    ASSUME MarketInv
    PROVE  /\ marketReq \in [Requests -> MarketSteps] /\ asset \in [Assets -> AssetRows]
           /\ listing \in [Listings -> ListingRows] /\ raced \subseteq Assets
           /\ \A r \in Requests :
                  /\ marketReq[r].pc \in MarketPc /\ marketReq[r].asset \in Slugs
                  /\ marketReq[r].listing \in Listings \cup {NoSlug} /\ marketReq[r].user \in Owners
                  /\ marketReq[r].payment \in TxIds /\ marketReq[r].read \in {"absent", "ACTIVE"}
           /\ \A a \in Assets :
                  /\ asset[a].status \in {"absent", "ACTIVE", "ON_SALE"}
                  /\ asset[a].owner \in Owners /\ asset[a].tx \in TxIds
           /\ \A l \in Listings :
                  /\ listing[l].status \in {"absent", "ACTIVE", "SOLD", "CANCELLED"}
                  /\ listing[l].asset \in Slugs /\ listing[l].seller \in Owners
                  /\ listing[l].payment \in TxIds
  <1>1. /\ marketReq \in [Requests -> MarketSteps] /\ asset \in [Assets -> AssetRows]
        /\ listing \in [Listings -> ListingRows] /\ raced \subseteq Assets
    BY DEF MarketInv, MarketTypeOK, MarketSteps, AssetRows, ListingRows, Owners, TxIds, Slugs
  <1>2. \A r \in Requests :
                  /\ marketReq[r].pc \in MarketPc /\ marketReq[r].asset \in Slugs
                  /\ marketReq[r].listing \in Listings \cup {NoSlug} /\ marketReq[r].user \in Owners
                  /\ marketReq[r].payment \in TxIds /\ marketReq[r].read \in {"absent", "ACTIVE"}
    BY <1>1 DEF MarketSteps
  <1>3. \A a \in Assets :
                  /\ asset[a].status \in {"absent", "ACTIVE", "ON_SALE"}
                  /\ asset[a].owner \in Owners /\ asset[a].tx \in TxIds
    BY <1>1 DEF AssetRows
  <1>4. \A l \in Listings :
                  /\ listing[l].status \in {"absent", "ACTIVE", "SOLD", "CANCELLED"}
                  /\ listing[l].asset \in Slugs /\ listing[l].seller \in Owners
                  /\ listing[l].payment \in TxIds
    BY <1>1 DEF ListingRows
  <1>5. QED BY <1>1, <1>2, <1>3, <1>4

\* The types of what is stored next, put together.
LEMMA NextTypes ==
    ASSUME marketReq' \in [Requests -> MarketSteps], asset' \in [Assets -> AssetRows],
           listing' \in [Listings -> ListingRows], raced' \subseteq Assets
    PROVE  MarketTypeOK'
  BY DEF MarketTypeOK, MarketSteps, AssetRows, ListingRows, Owners, TxIds, Slugs

-----------------------------------------------------------------------------
(* The steps preserve the invariant                                          *)

\* A request starts or goes on: the rows stay as they are.
LEMMA MarketStartInv ==
    ASSUME MarketInv, UNCHANGED <<asset, listing, raced>>, NEW r \in Requests,
           NEW pc \in MarketPc, NEW a \in Slugs, NEW l \in Listings \cup {NoSlug},
           NEW u \in Owners, NEW p \in TxIds, NEW s \in {"absent", "ACTIVE"},
           StartMarket(r, MarketStep(pc, a, l, u, p, s)),
           pc # "idle" => a \in Assets,
           pc \notin {"idle", "provision"} => s = "ACTIVE",
           pc \in {"cancel", "payment", "buy"} =>
               l \in Listings /\ listing[l].status # "absent" /\ listing[l].asset = a,
           pc = "cancel" => listing[l].seller = u
    PROVE  MarketInv'
  <1>1. /\ marketReq' \in [Requests -> MarketSteps]
        /\ marketReq'[r].pc = pc /\ marketReq'[r].asset = a /\ marketReq'[r].listing = l
        /\ marketReq'[r].user = u /\ marketReq'[r].read = s
        /\ \A x \in Requests : x # r => marketReq'[x] = marketReq[x]
    <2>1. marketReq \in [Requests -> MarketSteps]
      BY MarketRowTypes
    <2>2. QED BY <2>1, MarketSlot
  <1>2. asset' = asset /\ listing' = listing /\ raced' = raced
    OBVIOUS
  <1>3. MarketTypeOK'
    <2>1. /\ asset' \in [Assets -> AssetRows] /\ listing' \in [Listings -> ListingRows]
          /\ raced' \subseteq Assets
      BY <1>2, MarketRowTypes
    <2>2. QED BY <1>1, <2>1, NextTypes
  <1>4. OnePurchasePerPayment' /\ OffersMatchAssets' /\ ListingsNameAssets'
    BY <1>2 DEF MarketInv, OnePurchasePerPayment, OffersMatchAssets, Offers, ListingsNameAssets
  <1>5. RequestsRemember'
    BY <1>1, <1>2 DEF MarketInv, RequestsRemember
  <1>6. QED BY <1>3, <1>4, <1>5 DEF MarketInv

\* The reads of an operation, and the end of an aborted one.
LEMMA MarketReadInv ==
    ASSUME MarketInv, NEW r \in Requests,
           \/ \E a \in Assets, u \in Traders :
                  CreateListing(r, a, u) \/ \E p \in Payments : ProvisionAsset(r, a, u, p)
           \/ \E l \in Listings :
                  CancelListing(r, l) \/ \E u \in Traders, p \in Payments : BuyListing(r, l, u, p)
           \/ AbortMarket(r)
    PROVE  MarketInv'
  <1>0. /\ {"idle", "list", "provision", "cancel", "payment"} \subseteq MarketPc
        /\ NoSlug \in Slugs /\ Assets \subseteq Slugs
        /\ NoPayment \in TxIds /\ Payments \subseteq TxIds
        /\ Nobody \in Owners /\ Traders \subseteq Owners
        /\ {"absent", "ACTIVE"} \subseteq {"absent", "ACTIVE"}
    BY DEF MarketPc, Slugs, TxIds, Owners
  <1>1. ASSUME NEW a \in Assets, NEW u \in Traders, CreateListing(r, a, u)
        PROVE  MarketInv'
    <2>1. /\ StartMarket(r, MarketStep("list", a, NoSlug, u, NoPayment, "ACTIVE"))
          /\ UNCHANGED <<asset, listing, raced>>
      BY <1>1 DEF CreateListing
    <2>2. QED BY <1>0, <2>1, MarketStartInv
  <1>2. ASSUME NEW a \in Assets, NEW u \in Traders, NEW p \in Payments, ProvisionAsset(r, a, u, p)
        PROVE  MarketInv'
    <2>1. /\ StartMarket(r, MarketStep("provision", a, NoSlug, u, p, "absent"))
          /\ UNCHANGED <<asset, listing, raced>>
      BY <1>2 DEF ProvisionAsset
    <2>2. QED BY <1>0, <2>1, MarketStartInv
  <1>3. ASSUME NEW l \in Listings, CancelListing(r, l)
        PROVE  MarketInv'
    <2>1. PICK a \in Assets, u \in Owners : a = listing[l].asset /\ u = listing[l].seller
      BY <1>3, MarketRowTypes DEF CancelListing, MarketInv, ListingsNameAssets
    <2>2. /\ StartMarket(r, MarketStep("cancel", a, l, u, NoPayment, "ACTIVE"))
          /\ UNCHANGED <<asset, listing, raced>> /\ listing[l].status # "absent"
      BY <1>3, <2>1 DEF CancelListing
    <2>3. QED BY <1>0, <2>1, <2>2, MarketStartInv
  <1>4. ASSUME NEW l \in Listings, NEW u \in Traders, NEW p \in Payments, BuyListing(r, l, u, p)
        PROVE  MarketInv'
    <2>1. PICK a \in Assets : a = listing[l].asset
      BY <1>4, MarketRowTypes DEF BuyListing, MarketInv, ListingsNameAssets
    <2>2. /\ StartMarket(r, MarketStep("payment", a, l, u, p, "ACTIVE"))
          /\ UNCHANGED <<asset, listing, raced>> /\ listing[l].status # "absent"
      BY <1>4, <2>1 DEF BuyListing
    <2>3. QED BY <1>0, <2>1, <2>2, MarketStartInv
  <1>5. CASE AbortMarket(r)
    <2>1. /\ StartMarket(r, MarketStep("idle", NoSlug, NoSlug, Nobody, NoPayment, "absent"))
          /\ UNCHANGED <<asset, listing, raced>>
      BY <1>5 DEF AbortMarket, EndMarket, MarketIdle, StartMarket
    <2>2. QED BY <1>0, <2>1, MarketStartInv
  <1>6. QED BY <1>1, <1>2, <1>3, <1>4, <1>5

\* buyListing goes on, or ends because a listing was sold under the payment.
LEMMA CheckPaymentInv ==
    ASSUME MarketInv, NEW r \in Requests, CheckPaymentUnused(r)
    PROVE  MarketInv'
  <1>1. UNCHANGED <<asset, listing, raced>> /\ marketReq[r].pc = "payment"
    BY DEF CheckPaymentUnused, MarketAt
  <1>2. /\ "idle" \in MarketPc /\ "buy" \in MarketPc /\ NoPayment \in TxIds
        /\ NoSlug \in Slugs /\ Nobody \in Owners /\ Assets \subseteq Slugs
    BY DEF MarketPc, Slugs, TxIds, Owners
  <1>3. CASE EndMarket(r)
    <2>1. StartMarket(r, MarketStep("idle", NoSlug, NoSlug, Nobody, NoPayment, "absent"))
      BY <1>3 DEF EndMarket, MarketIdle, StartMarket
    <2>2. QED BY <1>1, <1>2, <2>1, MarketStartInv
  <1>4. CASE LET q == marketReq[r] IN
             StartMarket(r, MarketStep("buy", q.asset, q.listing, q.user, q.payment, q.read))
    <2>1. PICK a \in Assets, l \in Listings, u \in Owners, p \in TxIds :
              /\ a = marketReq[r].asset /\ l = marketReq[r].listing
              /\ u = marketReq[r].user /\ p = marketReq[r].payment
              /\ listing[l].status # "absent" /\ listing[l].asset = a
              /\ marketReq[r].read = "ACTIVE"
      BY <1>1, MarketRowTypes DEF MarketInv, RequestsRemember
    <2>2. StartMarket(r, MarketStep("buy", a, l, u, p, "ACTIVE"))
      BY <1>4, <2>1
    <2>3. QED BY <1>1, <1>2, <2>1, <2>2, MarketStartInv
  <1>5. QED BY <1>3, <1>4 DEF CheckPaymentUnused

\* A request that ends keeps what is known of the other requests, while the
\* listings that have a row keep their asset and their seller.
LEMMA EndMarketRequests ==
    ASSUME MarketInv, NEW r \in Requests, EndMarket(r),
           \A l \in Listings : listing[l].status # "absent" =>
               /\ listing'[l].status # "absent"
               /\ listing'[l].asset = listing[l].asset /\ listing'[l].seller = listing[l].seller
    PROVE  marketReq' \in [Requests -> MarketSteps] /\ RequestsRemember'
  <1>1. /\ marketReq' \in [Requests -> MarketSteps] /\ marketReq'[r].pc = "idle"
        /\ \A x \in Requests : x # r => marketReq'[x] = marketReq[x]
    BY MarketRowTypes, MarketEndSlot
  <1>2. RequestsRemember'
    BY <1>1 DEF MarketInv, RequestsRemember
  <1>3. QED BY <1>1, <1>2

\* A new asset has no listing.
LEMMA CommitProvisionInv ==
    ASSUME MarketInv, NEW r \in Requests, CommitProvision(r)
    PROVE  MarketInv'
  <1>1. MarketAt(r, "provision") /\ EndMarket(r) /\ listing' = listing /\ raced' = raced
    BY DEF CommitProvision
  <1>2. PICK a \in Assets, u \in Owners, p \in TxIds :
            a = marketReq[r].asset /\ u = marketReq[r].user /\ p = marketReq[r].payment
    BY <1>1, MarketRowTypes DEF MarketInv, RequestsRemember, MarketAt
  <1>3. /\ asset[a] = NoAsset /\ \A b \in Assets : asset[b].tx # p
        /\ asset' = [asset EXCEPT ![a] = AssetRow("ACTIVE", u, p)]
    BY <1>2 DEF CommitProvision
  <1>4. /\ asset' \in [Assets -> AssetRows]
        /\ asset'[a].status = "ACTIVE" /\ asset'[a].owner = u /\ asset'[a].tx = p
        /\ \A x \in Assets : x # a => asset'[x] = asset[x]
    BY <1>3, MarketRowTypes, StoreAsset
  <1>5. marketReq' \in [Requests -> MarketSteps] /\ RequestsRemember'
    BY <1>1, EndMarketRequests
  <1>6. MarketTypeOK'
    BY <1>1, <1>4, <1>5, MarketRowTypes, NextTypes
  <1>7. OnePurchasePerPayment' /\ ListingsNameAssets'
    BY <1>1, <1>3, <1>4 DEF MarketInv, OnePurchasePerPayment, ListingsNameAssets
  <1>8. asset[a].status = "absent"
    BY <1>3 DEF NoAsset, AssetRow
  <1>9. OffersMatchAssets'
    BY <1>1, <1>4, <1>8 DEF MarketInv, OffersMatchAssets, Offers
  <1>10. QED BY <1>5, <1>6, <1>7, <1>9 DEF MarketInv

\* createListing's transaction: ON_SALE, with one new active listing.
LEMMA CommitListingInv ==
    ASSUME MarketInv, NEW r \in Requests, NEW l \in Listings, CommitListing(r, l)
    PROVE  MarketInv'
  <1>1. MarketAt(r, "list") /\ EndMarket(r) /\ listing[l].status = "absent"
    BY DEF CommitListing, NoListing, ListingRow
  <1>2. PICK a \in Assets, u \in Owners, v \in Owners, p \in TxIds :
            /\ a = marketReq[r].asset /\ u = marketReq[r].user
            /\ v = asset[a].owner /\ p = asset[a].tx /\ marketReq[r].read = "ACTIVE"
    BY <1>1, MarketRowTypes DEF MarketInv, RequestsRemember, MarketAt
  <1>3. /\ asset' = [asset EXCEPT ![a] = AssetRow("ON_SALE", v, p)]
        /\ listing' = [listing EXCEPT ![l] = ListingRow("ACTIVE", a, u, NoPayment)]
        /\ raced' = IF asset[a].status = "ACTIVE" /\ v = u THEN raced ELSE raced \cup {a}
    BY <1>2 DEF CommitListing, NoteRaced
  <1>4. /\ asset' \in [Assets -> AssetRows]
        /\ asset'[a].status = "ON_SALE" /\ asset'[a].owner = v /\ asset'[a].tx = p
        /\ \A x \in Assets : x # a => asset'[x] = asset[x]
    BY <1>3, MarketRowTypes, StoreAsset
  <1>5. /\ listing' \in [Listings -> ListingRows]
        /\ listing'[l].status = "ACTIVE" /\ listing'[l].asset = a /\ listing'[l].seller = u
        /\ listing'[l].payment = NoPayment
        /\ \A x \in Listings : x # l => listing'[x] = listing[x]
    <2>1. a \in Slugs /\ NoPayment \in TxIds
      BY DEF Slugs, TxIds
    <2>2. QED BY <1>3, <2>1, MarketRowTypes, StoreListing
  <1>6. marketReq' \in [Requests -> MarketSteps] /\ RequestsRemember'
    BY <1>1, <1>5, EndMarketRequests
  <1>7. raced' \subseteq Assets /\ raced \subseteq raced'
    BY <1>3, MarketRowTypes
  <1>8. MarketTypeOK'
    BY <1>4, <1>5, <1>6, <1>7, NextTypes
  <1>9. OnePurchasePerPayment' /\ ListingsNameAssets'
    BY <1>2, <1>4, <1>5 DEF MarketInv, OnePurchasePerPayment, ListingsNameAssets
  <1>10. OffersMatchAssets'
    <2>1. ASSUME a \notin raced'
          PROVE  /\ asset'[a].status = "ON_SALE" <=> Offers(a)' # {}
                 /\ \A x \in Offers(a)' : listing'[x].seller = asset'[a].owner
                 /\ \A x, y \in Offers(a)' : x = y
      <3>1. asset[a].status = "ACTIVE" /\ v = u /\ a \notin raced
        BY <1>3, <2>1
      <3>2. \A x \in Listings : ~(listing[x].status = "ACTIVE" /\ listing[x].asset = a)
        BY <3>1 DEF MarketInv, OffersMatchAssets, Offers
      <3>3. Offers(a)' = {l}
        BY <1>5, <3>2 DEF Offers
      <3>4. QED BY <1>4, <1>5, <3>1, <3>3
    <2>2. \A b \in Assets : b # a => Offers(b)' = Offers(b)
      BY <1>1, <1>5 DEF Offers
    <2>3. \A b \in Assets : \A x \in Offers(b) : b # a => listing'[x] = listing[x]
      BY <1>1, <1>5 DEF Offers
    <2>4. ASSUME NEW b \in Assets, b \notin raced', b # a
          PROVE  /\ asset'[b].status = "ON_SALE" <=> Offers(b)' # {}
                 /\ \A x \in Offers(b)' : listing'[x].seller = asset'[b].owner
                 /\ \A x, y \in Offers(b)' : x = y
      <3>1. /\ asset[b].status = "ON_SALE" <=> Offers(b) # {}
            /\ \A x \in Offers(b) : listing[x].seller = asset[b].owner
            /\ \A x, y \in Offers(b) : x = y
        BY <1>7, <2>4 DEF MarketInv, OffersMatchAssets
      <3>2. QED BY <1>4, <2>2, <2>3, <2>4, <3>1
    <2>5. QED BY <2>1, <2>4 DEF OffersMatchAssets
  <1>11. QED BY <1>6, <1>8, <1>9, <1>10 DEF MarketInv

\* A listing is closed and its asset ACTIVE again: cancelled, or sold.  Unless a
\* request was overtaken, the asset has no other active listing.
LEMMA CloseListingInv ==
    ASSUME MarketInv, NEW r \in Requests, EndMarket(r), NEW a \in Assets, NEW l \in Listings,
           NEW s \in {"CANCELLED", "SOLD"}, NEW u \in Owners, NEW p \in TxIds,
           listing[l].status # "absent", listing[l].asset = a,
           asset' \in [Assets -> AssetRows],
           asset'[a].status = "ACTIVE", asset'[a].owner = u, asset'[a].tx = asset[a].tx,
           \A x \in Assets : x # a => asset'[x] = asset[x],
           listing' \in [Listings -> ListingRows],
           listing'[l].status = s, listing'[l].asset = a, listing'[l].payment = p,
           listing'[l].seller = listing[l].seller,
           \A x \in Listings : x # l => listing'[x] = listing[x],
           p = listing[l].payment \/ \A x \in Listings : x # l => listing[x].payment # p,
           raced' = IF listing[l].status = "ACTIVE" THEN raced ELSE raced \cup {a}
    PROVE  MarketInv'
  <1>1. marketReq' \in [Requests -> MarketSteps] /\ RequestsRemember'
    BY EndMarketRequests
  <1>2. raced' \subseteq Assets /\ raced \subseteq raced'
    BY MarketRowTypes
  <1>3. MarketTypeOK'
    BY <1>1, <1>2, NextTypes
  <1>4. OnePurchasePerPayment' /\ ListingsNameAssets'
    BY DEF MarketInv, OnePurchasePerPayment, ListingsNameAssets
  <1>5. OffersMatchAssets'
    <2>1. ASSUME a \notin raced'
          PROVE  Offers(a)' = {}
      <3>1. listing[l].status = "ACTIVE" /\ a \notin raced
        BY <2>1
      <3>2. \A x \in Listings : listing[x].status = "ACTIVE" /\ listing[x].asset = a => x = l
        BY <3>1 DEF MarketInv, OffersMatchAssets, Offers
      <3>3. QED BY <3>2 DEF Offers
    <2>2. \A b \in Assets : b # a => Offers(b)' = Offers(b)
      BY DEF Offers
    <2>3. \A b \in Assets : \A x \in Offers(b) : b # a => listing'[x] = listing[x]
      BY DEF Offers
    <2>4. ASSUME NEW b \in Assets, b \notin raced', b # a
          PROVE  /\ asset'[b].status = "ON_SALE" <=> Offers(b)' # {}
                 /\ \A x \in Offers(b)' : listing'[x].seller = asset'[b].owner
                 /\ \A x, y \in Offers(b)' : x = y
      <3>1. /\ asset[b].status = "ON_SALE" <=> Offers(b) # {}
            /\ \A x \in Offers(b) : listing[x].seller = asset[b].owner
            /\ \A x, y \in Offers(b) : x = y
        BY <1>2, <2>4 DEF MarketInv, OffersMatchAssets
      <3>2. QED BY <2>2, <2>3, <2>4, <3>1
    <2>5. QED BY <2>1, <2>4 DEF OffersMatchAssets
  <1>6. QED BY <1>1, <1>3, <1>4, <1>5 DEF MarketInv

\* cancelListing's transaction closes the listing that was read.
LEMMA CancelListingInv ==
    ASSUME MarketInv, NEW r \in Requests, CommitCancelListing(r)
    PROVE  MarketInv'
  <1>1. MarketAt(r, "cancel") /\ EndMarket(r)
    BY DEF CommitCancelListing
  <1>2. PICK a \in Assets, l \in Listings :
            /\ a = marketReq[r].asset /\ l = marketReq[r].listing
            /\ listing[l].status # "absent" /\ listing[l].asset = a
            /\ listing[l].seller = marketReq[r].user /\ marketReq[r].read = "ACTIVE"
    BY <1>1 DEF MarketInv, RequestsRemember, MarketAt
  <1>3. PICK u \in Owners, t \in TxIds, v \in Owners, p \in TxIds :
            u = asset[a].owner /\ t = asset[a].tx /\ v = listing[l].seller /\ p = listing[l].payment
    BY MarketRowTypes
  <1>4. /\ asset' = [asset EXCEPT ![a] = AssetRow("ACTIVE", u, t)]
        /\ listing' = [listing EXCEPT ![l] = ListingRow("CANCELLED", a, v, p)]
        /\ raced' = IF listing[l].status = "ACTIVE" THEN raced ELSE raced \cup {a}
    BY <1>2, <1>3 DEF CommitCancelListing, NoteRaced
  <1>5. /\ asset' \in [Assets -> AssetRows]
        /\ asset'[a].status = "ACTIVE" /\ asset'[a].owner = u /\ asset'[a].tx = t
        /\ \A x \in Assets : x # a => asset'[x] = asset[x]
    BY <1>4, MarketRowTypes, StoreAsset
  <1>6. /\ listing' \in [Listings -> ListingRows]
        /\ listing'[l].status = "CANCELLED" /\ listing'[l].asset = a /\ listing'[l].seller = v
        /\ listing'[l].payment = p
        /\ \A x \in Listings : x # l => listing'[x] = listing[x]
    <2>1. a \in Slugs
      BY DEF Slugs
    <2>2. QED BY <1>4, <2>1, MarketRowTypes, StoreListing
  <1>7. QED BY <1>1, <1>2, <1>3, <1>4, <1>5, <1>6, CloseListingInv

\* buyListing's transaction closes it and hands the asset over.
LEMMA CommitBuyInv ==
    ASSUME MarketInv, NEW r \in Requests, CommitBuy(r)
    PROVE  MarketInv'
  <1>1. MarketAt(r, "buy") /\ EndMarket(r)
    BY DEF CommitBuy
  <1>2. PICK a \in Assets, l \in Listings :
            /\ a = marketReq[r].asset /\ l = marketReq[r].listing
            /\ listing[l].status # "absent" /\ listing[l].asset = a /\ marketReq[r].read = "ACTIVE"
    BY <1>1 DEF MarketInv, RequestsRemember, MarketAt
  <1>3. PICK u \in Owners, t \in TxIds, v \in Owners, p \in TxIds :
            /\ u = marketReq[r].user /\ p = marketReq[r].payment
            /\ t = asset[a].tx /\ v = listing[l].seller
    BY MarketRowTypes
  <1>4. /\ asset' = [asset EXCEPT ![a] = AssetRow("ACTIVE", u, t)]
        /\ listing' = [listing EXCEPT ![l] = ListingRow("SOLD", a, v, p)]
        /\ raced' = IF listing[l].status = "ACTIVE" THEN raced ELSE raced \cup {a}
        /\ \A x \in Listings : x # l => listing[x].payment # p
    BY <1>2, <1>3 DEF CommitBuy, NoteRaced
  <1>5. /\ asset' \in [Assets -> AssetRows]
        /\ asset'[a].status = "ACTIVE" /\ asset'[a].owner = u /\ asset'[a].tx = t
        /\ \A x \in Assets : x # a => asset'[x] = asset[x]
    BY <1>4, MarketRowTypes, StoreAsset
  <1>6. /\ listing' \in [Listings -> ListingRows]
        /\ listing'[l].status = "SOLD" /\ listing'[l].asset = a /\ listing'[l].seller = v
        /\ listing'[l].payment = p
        /\ \A x \in Listings : x # l => listing'[x] = listing[x]
    <2>1. a \in Slugs
      BY DEF Slugs
    <2>2. QED BY <1>4, <2>1, MarketRowTypes, StoreListing
  <1>7. asset'[a].tx = asset[a].tx /\ listing'[l].seller = listing[l].seller
    BY <1>3, <1>5, <1>6
  <1>8. /\ p = listing[l].payment \/ \A x \in Listings : x # l => listing[x].payment # p
        /\ raced' = IF listing[l].status = "ACTIVE" THEN raced ELSE raced \cup {a}
    BY <1>4
  <1>9. /\ EndMarket(r) /\ listing[l].status # "absent" /\ listing[l].asset = a
    BY <1>1, <1>2
  <1>10. QED BY <1>5, <1>6, <1>7, <1>8, <1>9, CloseListingInv

\* At the start there are no assets, no listings and no requests.
LEMMA StartMarketInv ==
    ASSUME MarketInit
    PROVE  MarketInv
  <1>1. /\ "idle" \in MarketPc /\ NoSlug \in Slugs /\ NoPayment \in TxIds /\ Nobody \in Owners
    BY DEF MarketPc, Slugs, TxIds, Owners
  <1>2. /\ asset \in [Assets -> AssetRows]
        /\ \A a \in Assets : asset[a].status = "absent" /\ asset[a].tx = NoPayment
    BY <1>1 DEF MarketInit, NoAsset, AssetRow, AssetRows
  <1>3. /\ listing \in [Listings -> ListingRows]
        /\ \A l \in Listings : listing[l].status = "absent" /\ listing[l].payment = NoPayment
    BY <1>1 DEF MarketInit, NoListing, ListingRow, ListingRows
  <1>4. /\ marketReq \in [Requests -> MarketSteps]
        /\ \A r \in Requests : marketReq[r].pc = "idle"
    BY <1>1 DEF MarketInit, MarketIdle, MarketStep, MarketSteps
  <1>5. MarketTypeOK
    BY <1>2, <1>3, <1>4
       DEF MarketInit, MarketTypeOK, MarketSteps, AssetRows, ListingRows, Owners, TxIds, Slugs
  <1>6. OnePurchasePerPayment /\ OffersMatchAssets /\ ListingsNameAssets
    BY <1>2, <1>3 DEF OnePurchasePerPayment, OffersMatchAssets, Offers, ListingsNameAssets
  <1>7. RequestsRemember
    BY <1>4 DEF RequestsRemember
  <1>8. QED BY <1>5, <1>6, <1>7 DEF MarketInv

\* Every step preserves the invariant.
LEMMA MarketInvStep ==
    ASSUME MarketInv, [MarketNext]_marketVars
    PROVE  MarketInv'
  <1>1. ASSUME NEW r \in Requests,
               \/ \E a \in Assets, u \in Traders :
                      CreateListing(r, a, u) \/ \E p \in Payments : ProvisionAsset(r, a, u, p)
               \/ \E l \in Listings :
                      CancelListing(r, l) \/ \E u \in Traders, p \in Payments : BuyListing(r, l, u, p)
               \/ AbortMarket(r)
        PROVE  MarketInv'
    BY <1>1, MarketReadInv
  <1>2. ASSUME NEW r \in Requests, CheckPaymentUnused(r) \/ CommitProvision(r)
        PROVE  MarketInv'
    BY <1>2, CheckPaymentInv, CommitProvisionInv
  <1>3. ASSUME NEW r \in Requests, NEW l \in Listings, CommitListing(r, l)
        PROVE  MarketInv'
    BY <1>3, CommitListingInv
  <1>4. ASSUME NEW r \in Requests, CommitCancelListing(r) \/ CommitBuy(r)
        PROVE  MarketInv'
    BY <1>4, CancelListingInv, CommitBuyInv
  <1>5. CASE UNCHANGED marketVars
    BY <1>5 DEF marketVars, MarketInv, MarketTypeOK, OnePurchasePerPayment, OffersMatchAssets, Offers,
                RequestsRemember, ListingsNameAssets
  <1>6. QED BY <1>1, <1>2, <1>3, <1>4, <1>5 DEF MarketNext

\* The inductive invariant holds in every reachable state.
LEMMA MarketInvariance == MarketSpec => []MarketInv
  <1>1. MarketInit => MarketInv
    BY StartMarketInv
  <1>2. MarketInv /\ [MarketNext]_marketVars => MarketInv'
    BY MarketInvStep
  <1>3. QED BY <1>1, <1>2, PTL DEF MarketSpec

\* A step that gives an asset another owner sells a listing of it.
LEMMA OwnerStep ==
    ASSUME MarketInv, [MarketNext]_marketVars, NEW a \in Assets,
           asset[a] # NoAsset, asset'[a].owner # asset[a].owner
    PROVE  \E l \in Listings :
               /\ listing[l].asset = a /\ listing'[l].status = "SOLD"
               /\ a \in raced' \/ (listing[l].status = "ACTIVE" /\ listing[l].seller = asset[a].owner)
  <1>1. ASSUME asset' = asset
        PROVE  FALSE
    BY <1>1
  <1>2. ASSUME NEW r \in Requests, CommitProvision(r)
        PROVE  FALSE
    BY <1>2, MarketRowTypes DEF CommitProvision
  <1>3. ASSUME NEW b \in Assets, NEW s, asset' = [asset EXCEPT ![b] = AssetRow(s, asset[b].owner, asset[b].tx)]
        PROVE  FALSE
    BY <1>3, MarketRowTypes DEF AssetRow
  <1>4. ASSUME NEW r \in Requests, NEW l \in Listings, CommitListing(r, l)
        PROVE  FALSE
    <2>1. marketReq[r].asset \in Assets
      BY <1>4 DEF CommitListing, MarketInv, RequestsRemember, MarketAt
    <2>2. QED BY <1>3, <1>4, <2>1 DEF CommitListing
  <1>5. ASSUME NEW r \in Requests, CommitCancelListing(r)
        PROVE  FALSE
    <2>1. marketReq[r].asset \in Assets
      BY <1>5 DEF CommitCancelListing, MarketInv, RequestsRemember, MarketAt
    <2>2. QED BY <1>3, <1>5, <2>1 DEF CommitCancelListing
  <1>6. ASSUME NEW r \in Requests, CommitBuy(r)
        PROVE  \E l \in Listings :
                   /\ listing[l].asset = a /\ listing'[l].status = "SOLD"
                   /\ a \in raced' \/ (listing[l].status = "ACTIVE" /\ listing[l].seller = asset[a].owner)
    <2>1. PICK l \in Listings :
              /\ l = marketReq[r].listing /\ listing[l].status # "absent"
              /\ listing[l].asset = marketReq[r].asset /\ marketReq[r].read = "ACTIVE"
      BY <1>6 DEF CommitBuy, MarketInv, RequestsRemember, MarketAt
    <2>2. marketReq[r].asset = a
      BY <1>6, MarketRowTypes DEF CommitBuy
    <2>3. listing'[l].status = "SOLD"
      BY <1>6, <2>1, MarketRowTypes DEF CommitBuy, ListingRow
    <2>4. a \notin raced' => listing[l].status = "ACTIVE" /\ a \notin raced
      BY <1>6, <2>1, <2>2 DEF CommitBuy, NoteRaced
    <2>5. a \notin raced' => listing[l].seller = asset[a].owner
      BY <2>1, <2>2, <2>4 DEF MarketInv, OffersMatchAssets, Offers
    <2>6. QED BY <2>1, <2>2, <2>3, <2>4, <2>5
  <1>7. CASE \/ \E r \in Requests :
                    \/ \E b \in Assets, u \in Traders :
                           CreateListing(r, b, u) \/ \E p \in Payments : ProvisionAsset(r, b, u, p)
                    \/ \E l \in Listings :
                           CancelListing(r, l) \/ \E u \in Traders, p \in Payments : BuyListing(r, l, u, p)
                    \/ CheckPaymentUnused(r) \/ AbortMarket(r)
             \/ UNCHANGED marketVars
    BY <1>1, <1>7 DEF CreateListing, ProvisionAsset, CancelListing, BuyListing, CheckPaymentUnused,
                      AbortMarket, marketVars
  <1>8. QED BY <1>2, <1>4, <1>5, <1>6, <1>7 DEF MarketNext

-----------------------------------------------------------------------------
(* The theorems                                                              *)

\* The marketplace's variables keep their types.
THEOREM MarketTypes == MarketSpec => []MarketTypeOK
  <1>1. MarketInv => MarketTypeOK
    BY DEF MarketInv
  <1>2. QED BY <1>1, MarketInvariance, PTL

\* A payment provisions one asset and buys one listing, for any number of
\* overlapping requests.
THEOREM PaymentBuysOnce == MarketSpec => []OnePurchasePerPayment
  <1>1. MarketInv => OnePurchasePerPayment
    BY DEF MarketInv
  <1>2. QED BY <1>1, MarketInvariance, PTL

\* Unless a request was overtaken on it, an asset is ON_SALE exactly while its
\* owner has one active listing of it.
THEOREM OffersFollowAssets == MarketSpec => []OffersMatchAssets
  <1>1. MarketInv => OffersMatchAssets
    BY DEF MarketInv
  <1>2. QED BY <1>1, MarketInvariance, PTL

\* An owner loses an asset only by a sale, of his own listing unless a request
\* was overtaken.
THEOREM OnlySalesMoveAssets == MarketSpec => OwnerLosesOnlyBySale
  <1>1. MarketInv /\ [MarketNext]_marketVars =>
            [\A a \in Assets :
                 asset[a] # NoAsset /\ asset'[a].owner # asset[a].owner =>
                     \E l \in Listings :
                         /\ listing[l].asset = a /\ listing'[l].status = "SOLD"
                         /\ a \in raced' \/ (listing[l].status = "ACTIVE" /\ listing[l].seller = asset[a].owner)]_marketVars
    BY OwnerStep
  <1>2. QED BY <1>1, MarketInvariance, PTL DEF MarketSpec, OwnerLosesOnlyBySale
=============================================================================
