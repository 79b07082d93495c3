-------------------------- MODULE AssetMarketplace --------------------------
(***************************************************************************)
(* tec-asset-service: provisioning of assets (asset.service.ts) and their  *)
(* sale (marketplace.service.ts).  The checks read outside the transaction *)
(* that then writes the asset, its history and the listing by id alone.    *)
(* An asset is named by its slug, which is unique.  Prices and expiry are  *)
(* left out; no code sets the status LOCKED, PENDING or EXPIRED.           *)
(***************************************************************************)
EXTENDS ServiceRequests

CONSTANTS
    Traders,   \* ids of users who own, sell or buy assets
    Assets,    \* slugs of assets
    Listings   \* ids of listings; bound: a listing needs a free id

ASSUME MarketAssumption == Nobody \notin Traders

VARIABLES
    asset,     \* rows of the assets table
    listing,   \* rows of the asset_listings table
    raced,     \* history: assets that a request wrote after it was overtaken
    marketReq  \* what each running request is doing

marketVars == <<asset, listing, raced, marketReq>>

AssetRow(status, owner, tx) == [status |-> status, owner |-> owner, tx |-> tx]
NoAsset == AssetRow("absent", Nobody, NoPayment)
ListingRow(status, a, seller, p) == [status |-> status, asset |-> a, seller |-> seller, payment |-> p]
NoSlug == "none"
NoListing == ListingRow("absent", NoSlug, Nobody, NoPayment)

MarketPc == {"idle", "provision", "list", "cancel", "payment", "buy"}
\* read: the status that was checked, of the asset to be listed or of the listing
MarketStep(pc, a, l, user, payment, read) ==
    [pc |-> pc, asset |-> a, listing |-> l, user |-> user, payment |-> payment, read |-> read]
MarketIdle == MarketStep("idle", NoSlug, NoSlug, Nobody, NoPayment, "absent")

MarketInit ==
    /\ asset = [a \in Assets |-> NoAsset]
    /\ listing = [l \in Listings |-> NoListing]
    /\ raced = {}
    /\ marketReq = [r \in Requests |-> MarketIdle]

MarketAt(r, pc) == marketReq[r].pc = pc
StartMarket(r, step) == marketReq' = [marketReq EXCEPT ![r] = step]
EndMarket(r) == marketReq' = [marketReq EXCEPT ![r] = MarketIdle]

\* A request writes asset a: does what it had checked still hold?
NoteRaced(a, holds) == raced' = IF holds THEN raced ELSE raced \cup {a}

-----------------------------------------------------------------------------
(* asset.service.ts                                                          *)

\* provisionAsset: neither the transaction id nor the slug is found
ProvisionAsset(r, a, u, p) ==
    /\ MarketAt(r, "idle")
    /\ asset[a] = NoAsset /\ \A b \in Assets : asset[b].tx # p
    /\ StartMarket(r, MarketStep("provision", a, NoSlug, u, p, "absent"))
    /\ UNCHANGED <<asset, listing, raced>>

\* Fault: transactionId has no unique index
CommitProvisionUnindexed(r) ==
    /\ MarketAt(r, "provision")
    /\ LET q == marketReq[r] IN
           /\ asset[q.asset] = NoAsset
           /\ asset' = [asset EXCEPT ![q.asset] = AssetRow("ACTIVE", q.user, q.payment)]
    /\ EndMarket(r)
    /\ UNCHANGED <<listing, raced>>

\* create, which either unique index may refuse (AbortMarket)
CommitProvision(r) ==
    /\ MarketAt(r, "provision")
    /\ LET q == marketReq[r] IN
           /\ asset[q.asset] = NoAsset /\ \A b \in Assets : asset[b].tx # q.payment
           /\ asset' = [asset EXCEPT ![q.asset] = AssetRow("ACTIVE", q.user, q.payment)]
    /\ EndMarket(r)
    /\ UNCHANGED <<listing, raced>>

-----------------------------------------------------------------------------
(* marketplace.service.ts                                                    *)

\* createListing: refused to others than the owner, and if ON_SALE
CreateListing(r, a, u) ==
    /\ MarketAt(r, "idle")
    /\ asset[a].status = "ACTIVE" /\ asset[a].owner = u
    /\ StartMarket(r, MarketStep("list", a, NoSlug, u, NoPayment, asset[a].status))
    /\ UNCHANGED <<asset, listing, raced>>

CommitListing(r, l) ==
    /\ MarketAt(r, "list") /\ listing[l] = NoListing
    /\ LET q == marketReq[r] IN
           /\ asset' = [asset EXCEPT ![q.asset] =
                  AssetRow("ON_SALE", asset[q.asset].owner, asset[q.asset].tx)]
           /\ listing' = [listing EXCEPT ![l] = ListingRow("ACTIVE", q.asset, q.user, NoPayment)]
           /\ NoteRaced(q.asset, asset[q.asset].status = q.read /\ asset[q.asset].owner = q.user)
    /\ EndMarket(r)

\* cancelListing, by its seller
CancelListing(r, l) ==
    /\ MarketAt(r, "idle") /\ listing[l].status = "ACTIVE"
    /\ StartMarket(r, MarketStep("cancel", listing[l].asset, l, listing[l].seller, NoPayment,
                              listing[l].status))
    /\ UNCHANGED <<asset, listing, raced>>

\* Fault: the asset stays ON_SALE
CommitCancelListingOnly(r) ==
    /\ MarketAt(r, "cancel")
    /\ LET q == marketReq[r] IN
           /\ listing' = [listing EXCEPT ![q.listing] =
                  ListingRow("CANCELLED", q.asset, q.user, listing[q.listing].payment)]
           /\ NoteRaced(q.asset, listing[q.listing].status = q.read)
    /\ EndMarket(r)
    /\ UNCHANGED asset

CommitCancelListing(r) ==
    /\ MarketAt(r, "cancel")
    /\ LET q == marketReq[r] IN
           /\ asset' = [asset EXCEPT ![q.asset] =
                  AssetRow("ACTIVE", asset[q.asset].owner, asset[q.asset].tx)]
           /\ listing' = [listing EXCEPT ![q.listing] =
                  ListingRow("CANCELLED", q.asset, q.user, listing[q.listing].payment)]
           /\ NoteRaced(q.asset, listing[q.listing].status = q.read)
    /\ EndMarket(r)

\* Fault: a listing that is no longer ACTIVE can be bought
BuyListingUnchecked(r, l, u, p) ==
    /\ MarketAt(r, "idle")
    /\ listing[l] # NoListing /\ listing[l].seller # u
    /\ StartMarket(r, MarketStep("payment", listing[l].asset, l, u, p, listing[l].status))
    /\ UNCHANGED <<asset, listing, raced>>

BuyListing(r, l, u, p) ==
    /\ MarketAt(r, "idle")
    /\ listing[l].status = "ACTIVE" /\ listing[l].seller # u
    /\ StartMarket(r, MarketStep("payment", listing[l].asset, l, u, p, listing[l].status))
    /\ UNCHANGED <<asset, listing, raced>>

\* 409 if a listing was sold under this payment
CheckPaymentUnused(r) ==
    /\ MarketAt(r, "payment")
    /\ LET q == marketReq[r] IN
           IF \E l \in Listings : listing[l].payment = q.payment
           THEN EndMarket(r)
           ELSE StartMarket(r, MarketStep("buy", q.asset, q.listing, q.user, q.payment, q.read))
    /\ UNCHANGED <<asset, listing, raced>>

\* Fault: paymentId has no unique index
CommitBuyUnindexed(r) ==
    /\ MarketAt(r, "buy")
    /\ LET q == marketReq[r] IN
           /\ asset' = [asset EXCEPT ![q.asset] = AssetRow("ACTIVE", q.user, asset[q.asset].tx)]
           /\ listing' = [listing EXCEPT ![q.listing] =
                  ListingRow("SOLD", q.asset, listing[q.listing].seller, q.payment)]
           /\ NoteRaced(q.asset, listing[q.listing].status = q.read)
    /\ EndMarket(r)

\* Owner and status of the asset, its history and the listing, all by id; only
\* the unique index on paymentId can refuse
CommitBuy(r) ==
    /\ MarketAt(r, "buy")
    /\ LET q == marketReq[r] IN
           /\ \A l \in Listings \ {q.listing} : listing[l].payment # q.payment
           /\ asset' = [asset EXCEPT ![q.asset] = AssetRow("ACTIVE", q.user, asset[q.asset].tx)]
           /\ listing' = [listing EXCEPT ![q.listing] =
                  ListingRow("SOLD", q.asset, listing[q.listing].seller, q.payment)]
           /\ NoteRaced(q.asset, listing[q.listing].status = q.read)
    /\ EndMarket(r)

\* A unique violation, a timeout or the end of the process
AbortMarket(r) ==
    /\ ~MarketAt(r, "idle")
    /\ EndMarket(r)
    /\ UNCHANGED <<asset, listing, raced>>

-----------------------------------------------------------------------------

MarketNext ==
    \E r \in Requests :
        \/ \E a \in Assets, u \in Traders :
               CreateListing(r, a, u) \/ \E p \in Payments : ProvisionAsset(r, a, u, p)
        \/ \E l \in Listings :
               \/ CommitListing(r, l) \/ CancelListing(r, l)
               \/ \E u \in Traders, p \in Payments : BuyListing(r, l, u, p)
        \/ CommitProvision(r) \/ CommitCancelListing(r)
        \/ CheckPaymentUnused(r) \/ CommitBuy(r) \/ AbortMarket(r)

MarketSpec == MarketInit /\ [][MarketNext]_marketVars

-----------------------------------------------------------------------------
(* Properties *)

\* Every variable has its type, and a request at work names existing rows.
MarketTypeOK ==
    /\ asset \in [Assets -> [status: {"absent", "ACTIVE", "ON_SALE"},
                             owner: Traders \cup {Nobody}, tx: Payments \cup {NoPayment}]]
    /\ listing \in [Listings -> [status: {"absent", "ACTIVE", "SOLD", "CANCELLED"},
                                 asset: Assets \cup {NoSlug}, seller: Traders \cup {Nobody},
                                 payment: Payments \cup {NoPayment}]]
    /\ raced \subseteq Assets
    /\ marketReq \in [Requests ->
           [pc: MarketPc, asset: Assets \cup {NoSlug}, listing: Listings \cup {NoSlug},
            user: Traders \cup {Nobody}, payment: Payments \cup {NoPayment},
            read: {"absent", "ACTIVE"}]]

\* A payment provisions one asset and buys one listing, however requests overlap
\* between the look-up of the payment and the write.
OnePurchasePerPayment ==
    /\ \A a, b \in Assets : asset[a].tx = asset[b].tx /\ asset[a].tx # NoPayment => a = b
    /\ \A l, m \in Listings :
           listing[l].payment = listing[m].payment /\ listing[l].payment # NoPayment => l = m

\* The active listings of an asset
Offers(a) == {l \in Listings : listing[l].status = "ACTIVE" /\ listing[l].asset = a}

\* An asset that no overtaken request has written is ON_SALE exactly while it
\* has one active listing, and that listing is its owner's.
OffersMatchAssets ==
    \A a \in Assets \ raced :
        /\ asset[a].status = "ON_SALE" <=> Offers(a) # {}
        /\ \A l \in Offers(a) : listing[l].seller = asset[a].owner
        /\ \A l, m \in Offers(a) : l = m

\* An owner loses an asset only by a listing that is sold in the same step; it
\* is his own listing unless a request on that asset was overtaken.
OwnerLosesOnlyBySale ==
    [][\A a \in Assets :
           asset[a] # NoAsset /\ asset'[a].owner # asset[a].owner =>
               \E l \in Listings :
                   /\ listing[l].asset = a /\ listing'[l].status = "SOLD"
                   /\ a \in raced' \/ (listing[l].status = "ACTIVE" /\ listing[l].seller = asset[a].owner)]_marketVars
=============================================================================
