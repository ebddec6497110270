----------------------------- MODULE Catalogue -----------------------------
(***************************************************************************)
(* The product master: categories, units of measure, products, the         *)
(* conversions between their units and their prices (product_service,      *)
(* uom_conversion_service, pricing_service).                               *)
(*                                                                         *)
(* A request checks what it has read and then writes, without a lock.      *)
(* What the database checks again, or what no other request can spoil, is  *)
(* one step; the rest is two.  A unit is its code and a product its SKU,   *)
(* which stay taken when they are deleted.  Brands, identifiers and links  *)
(* to suppliers, which are rows of the same kind with less to check, and   *)
(* descriptions and specifications are left out.                           *)
(*                                                                         *)
(* The names, and those of Sales, are other than those of Payables, so     *)
(* that one module can extend both.                                        *)
(***************************************************************************)
EXTENDS Integers, FiniteSets, FiniteSetsExt

CONSTANTS
    Category, Unit, Product, Price,   \* row identities
    Name,                 \* names of categories
    Client,
    Factor,               \* conversion factors
    PriceRows,            \* what a row of product_prices may say
    Stock,                \* the prices there are at first
    Session,                  \* requests that may be open at the same time
    Mixes,                \* sets of requests, one of which is made in a behaviour
    Absent

ASSUME FactorAssumption == Factor \subseteq Nat \ {0}
ASSUME FiniteAssumption == IsFiniteSet(Category) /\ IsFiniteSet(Session)

CategoryRow == [name : Name, parent : Category \cup {Absent}, live : BOOLEAN]
UnitRow == {"live", "deleted"}
ProductRow == [base : Unit, category : Category \cup {Absent}, live : BOOLEAN]
ConversionRow == [factor : Factor, of : Unit]
PriceRow == [product : Product, type : {"DEFAULT_SALES", "TIER_1", "CUSTOMER_SPECIFIC"},
             client : Client \cup {Absent}, min_quantity : Nat, price : Nat]

\* Two rows compete for the same sales; a missing quantity counts as zero.
SameKey(r, s) ==
    /\ r.product = s.product /\ r.type = s.type /\ r.client = s.client
    /\ r.min_quantity = s.min_quantity

ASSUME StockAssumption ==
    /\ PriceRows \subseteq PriceRow /\ Stock \in [Price -> PriceRow \cup {Absent}]
    /\ \A i, j \in Price :
          Stock[i] # Absent /\ Stock[j] # Absent /\ SameKey(Stock[i], Stock[j]) => i = j

ASSUME AbsentAssumption ==
    Absent \notin Category \cup UnitRow \cup CategoryRow \cup ProductRow \cup ConversionRow
                \cup PriceRow

VARIABLES
    ops,        \* the requests of this behaviour, and whether they overlap
    session,        \* open requests, Absent while free
    category, unit, product, conversion, price   \* rows, Absent while absent

catalogue == <<category, unit, product, conversion, price>>

InitCatalogue ==
    /\ ops \in Mixes
    /\ session = [t \in Session |-> Absent]
    /\ category = [k \in Category |-> Absent]
    /\ \E u \in Unit :
         /\ unit = [v \in Unit |-> IF v = u THEN "live" ELSE Absent]
         /\ product = [p \in Product |->
              IF "products" \in ops THEN Absent
              ELSE [base |-> u, category |-> Absent, live |-> TRUE]]
    /\ conversion = [p \in Product |-> [u \in Unit |-> Absent]]
    /\ price = Stock

Overlap == "overlap" \in ops
Free ==
    Cardinality({t \in Session : session[t] # Absent}) < IF Overlap THEN Cardinality(Session) ELSE 1

Begins(t, request) == Free /\ session[t] = Absent /\ session' = [session EXCEPT ![t] = request]
Ends(t) == session' = [session EXCEPT ![t] = Absent]
Is(t, op) == session[t] # Absent /\ session[t].op = op

\* A request of the product master that reads, writes or does both.
Reads(t, request) == Begins(t, request) /\ UNCHANGED <<ops, catalogue>>
Writes(t, op) == Is(t, op) /\ Ends(t) /\ UNCHANGED ops
OneStep(op) == op \in ops /\ Free /\ UNCHANGED <<ops, session>>

-----------------------------------------------------------------------------
(* Categories.                                                             *)

LiveCategory(k) == category[k] # Absent /\ category[k].live

\* Only the application looks at names, and only at those in use.
NameTaken(k, name) == \E j \in Category \ {k} : LiveCategory(j) /\ category[j].name = name

\* The way up from k, as far as it leads through live categories.
Walk(k) ==
    LET step[n \in 0..Cardinality(Category)] ==
          IF n = 0 THEN k
          ELSE IF step[n-1] # Absent /\ LiveCategory(step[n-1]) THEN category[step[n-1]].parent
          ELSE Absent
    IN  step

\* Faulty: only the parent itself is compared.
AcyclicParentNear(k, parent) == parent # k

AcyclicParent(k, parent) ==
    parent # k /\ \A n \in 1..Cardinality(Category) :
        Walk(parent)[n] # Absent =>
            Walk(parent)[n] \notin {k} \cup {Walk(parent)[m] : m \in 0..n-1}

\* An edit that does not send the name, or the parent, keeps it unchecked.
NameOK(k, name) == (category[k] # Absent /\ name = category[k].name) \/ ~NameTaken(k, name)

ParentOK(k, parent) ==
    \/ category[k] # Absent /\ parent = category[k].parent
    \/ parent \in {Absent} \cup {j \in Category : LiveCategory(j) /\ AcyclicParent(k, j)}

CategoryRead(t, k, name, parent) ==
    /\ "categories" \in ops
    /\ category[k] = Absent \/ LiveCategory(k)
    /\ NameOK(k, name) /\ ParentOK(k, parent)
    /\ Reads(t, [op |-> "category", id |-> k, was |-> category[k],
                 row |-> [name |-> name, parent |-> parent, live |-> TRUE]])

\* An edit writes the columns that differ from what it has read.
CategoryDone(t) ==
    /\ Writes(t, "category")
    /\ LET r == session[t]  k == r.id  now == category[k]
       IN  /\ (r.was = Absent) = (now = Absent)
           /\ category' = [category EXCEPT ![k] =
                IF r.was = Absent THEN r.row
                ELSE [now EXCEPT !.name = IF r.row.name = r.was.name THEN now.name ELSE r.row.name,
                                 !.parent = IF r.row.parent = r.was.parent THEN now.parent
                                            ELSE r.row.parent]]
    /\ UNCHANGED <<unit, product, conversion, price>>

\* Whatever is filed under it.
DeleteCategory(k) ==
    /\ OneStep("categories") /\ LiveCategory(k)
    /\ category' = [category EXCEPT ![k].live = FALSE]
    /\ UNCHANGED <<unit, product, conversion, price>>

-----------------------------------------------------------------------------
(* Units.                                                                  *)

LiveProduct(p) == product[p] # Absent /\ product[p].live

CreateUnit(u) ==
    /\ OneStep("units") /\ unit[u] = Absent
    /\ unit' = [unit EXCEPT ![u] = "live"]
    /\ UNCHANGED <<category, product, conversion, price>>

UnitInUse(u) ==
    \E p \in Product : LiveProduct(p) /\ (product[p].base = u \/ conversion[p][u] # Absent)

DeleteUnitRead(t, u) ==
    /\ "units" \in ops /\ unit[u] = "live" /\ ~UnitInUse(u)
    /\ Reads(t, [op |-> "delete_unit", unit |-> u])

DeleteUnitDone(t) ==
    /\ Writes(t, "delete_unit")
    /\ unit' = [unit EXCEPT ![session[t].unit] = "deleted"]
    /\ UNCHANGED <<category, product, conversion, price>>

-----------------------------------------------------------------------------
(* Products.                                                               *)

RefsOK(u, k) == unit[u] = "live" /\ k \in {Absent} \cup {j \in Category : LiveCategory(j)}

CreateProductRead(t, p, u, k) ==
    /\ "products" \in ops /\ product[p] = Absent /\ RefsOK(u, k)
    /\ Reads(t, [op |-> "create_product", id |-> p,
                 row |-> [base |-> u, category |-> k, live |-> TRUE]])

CreateProductDone(t) ==
    /\ Writes(t, "create_product") /\ product[session[t].id] = Absent
    /\ product' = [product EXCEPT ![session[t].id] = session[t].row]
    /\ UNCHANGED <<category, unit, conversion, price>>

BaseMayChange(p, u) == u = product[p].base \/ \A v \in Unit : conversion[p][v] = Absent

\* The category is looked at again even when it stays.
UpdateProductRead(t, p, u, k) ==
    /\ "products" \in ops /\ LiveProduct(p) /\ BaseMayChange(p, u) /\ RefsOK(u, k)
    /\ Reads(t, [op |-> "update_product", id |-> p, was |-> product[p], base |-> u, category |-> k])

UpdateProductDone(t) ==
    /\ Writes(t, "update_product")
    /\ LET r == session[t] now == product[r.id]
       IN  product' = [product EXCEPT ![r.id] =
             [now EXCEPT !.base = IF r.base = r.was.base THEN now.base ELSE r.base,
                         !.category = IF r.category = r.was.category THEN now.category
                                      ELSE r.category]]
    /\ UNCHANGED <<category, unit, conversion, price>>

\* Conversions and prices that were read are deleted for good.
DeleteProductRead(t, p) ==
    /\ "products" \in ops /\ LiveProduct(p)
    /\ Reads(t, [op |-> "delete_product", id |-> p,
                 units |-> {u \in Unit : conversion[p][u] # Absent},
                 prices |-> {i \in Price : price[i] # Absent /\ price[i].product = p}])

DeleteProductDone(t) ==
    /\ Writes(t, "delete_product")
    /\ product' = [product EXCEPT ![session[t].id].live = FALSE]
    /\ conversion' = [conversion EXCEPT ![session[t].id] =
         [u \in Unit |-> IF u \in session[t].units THEN Absent ELSE @[u]]]
    /\ price' = [i \in Price |-> IF i \in session[t].prices THEN Absent ELSE price[i]]
    /\ UNCHANGED <<category, unit>>

-----------------------------------------------------------------------------
(* Conversions: one of the unit is so many of the product's base unit.     *)

\* `of` is the base unit the request has read; the row does not keep it.
CreateConversionRead(t, p, u, f) ==
    /\ "units" \in ops
    /\ LiveProduct(p) /\ u # product[p].base /\ unit[u] = "live" /\ conversion[p][u] = Absent
    /\ Reads(t, [op |-> "conversion", id |-> p, unit |-> u,
                 row |-> [factor |-> f, of |-> product[p].base]])

\* The unique constraint refuses a second row.
CreateConversionDone(t) ==
    /\ Writes(t, "conversion") /\ conversion[session[t].id][session[t].unit] = Absent
    /\ conversion' = [conversion EXCEPT ![session[t].id][session[t].unit] = session[t].row]
    /\ UNCHANGED <<category, unit, product, price>>

DeleteConversion(p, u) ==
    /\ OneStep("units") /\ LiveProduct(p) /\ conversion[p][u] # Absent
    /\ conversion' = [conversion EXCEPT ![p][u] = Absent]
    /\ UNCHANGED <<category, unit, product, price>>

\* resolve_factor, as an exact fraction, through the base unit, in two steps at
\* most.  The code divides decimals of 28 digits: what agrees here agrees there
\* up to rounding, and a factor and its inverse may miss one by the last digit.
Times(f, g) == <<f[1] * g[1], f[2] * g[2]>>
Same(f, g) == f[1] * g[2] = g[1] * f[2]
ToBase(p, u) == IF u = product[p].base THEN <<1, 1>> ELSE <<conversion[p][u].factor, 1>>
Known(p) == {u \in Unit : u = product[p].base \/ conversion[p][u] # Absent}
ResolveFactor(p, from, to) ==
    IF from = to THEN <<1, 1>>
    ELSE <<ToBase(p, from)[1] * ToBase(p, to)[2], ToBase(p, from)[2] * ToBase(p, to)[1]>>

-----------------------------------------------------------------------------
(* Prices.                                                                 *)

CreatePriceRead(t, row) ==
    /\ "prices" \in ops /\ LiveProduct(row.product)
    /\ ~\E i \in Price : price[i] # Absent /\ SameKey(price[i], row)
    /\ Reads(t, [op |-> "price", row |-> row])

\* No constraint of the database repeats the check.
CreatePriceDone(t) ==
    /\ Writes(t, "price")
    /\ \E i \in Price : price[i] = Absent /\ price' = [price EXCEPT ![i] = session[t].row]
    /\ UNCHANGED <<category, unit, product, conversion>>

DeletePrice(i) ==
    /\ OneStep("prices") /\ price[i] # Absent /\ LiveProduct(price[i].product)
    /\ price' = [price EXCEPT ![i] = Absent]
    /\ UNCHANGED <<category, unit, product, conversion>>

\* The eligible rows with the largest minimum quantity.
Best(list, n) ==
    LET eligible == {i \in list : price[i].min_quantity <= n}
    IN  {i \in eligible : \A j \in eligible : price[j].min_quantity <= price[i].min_quantity}

RowsOf(p, type, c) ==
    {i \in Price : /\ price[i] # Absent /\ price[i].product = p
                   /\ price[i].type = type /\ price[i].client = c}

\* A price for the client, else by volume, else of the list.
Resolved(p, c, n) ==
    LET customer == Best(RowsOf(p, "CUSTOMER_SPECIFIC", c), n)
        tier     == Best(RowsOf(p, "TIER_1", Absent), n)
        listed   == Best(RowsOf(p, "DEFAULT_SALES", Absent), n)
    IN  IF customer # {} THEN customer ELSE IF tier # {} THEN tier ELSE listed

-----------------------------------------------------------------------------
\* A crash, or a unique constraint that refuses the row.
Abandon(t) == session[t] # Absent /\ Ends(t) /\ UNCHANGED <<ops, catalogue>>

CategoryRequests(t) ==
    \E k \in Category, name \in Name, parent \in Category \cup {Absent} :
        CategoryRead(t, k, name, parent)

UnitRequests(t) == \E u \in Unit : DeleteUnitRead(t, u)

ProductRequests(t) ==
    \E p \in Product : \/ DeleteProductRead(t, p)
                       \/ \E u \in Unit, k \in Category \cup {Absent} :
                            CreateProductRead(t, p, u, k) \/ UpdateProductRead(t, p, u, k)

ConversionRequests(t) ==
    \E p \in Product, u \in Unit, f \in Factor : CreateConversionRead(t, p, u, f)

PriceRequests(t) == \E row \in PriceRows : CreatePriceRead(t, row)

CatalogueNext ==
    \/ \E k \in Category : DeleteCategory(k)
    \/ \E u \in Unit : CreateUnit(u)
    \/ \E p \in Product, u \in Unit : DeleteConversion(p, u)
    \/ \E i \in Price : DeletePrice(i)
    \/ \E t \in Session :
         \/ CategoryRequests(t) \/ UnitRequests(t) \/ ProductRequests(t)
         \/ ConversionRequests(t) \/ PriceRequests(t)
         \/ CategoryDone(t) \/ DeleteUnitDone(t)
         \/ CreateProductDone(t) \/ UpdateProductDone(t) \/ DeleteProductDone(t)
         \/ CreateConversionDone(t) \/ CreatePriceDone(t)

-----------------------------------------------------------------------------
(* Properties, of one request at a time where they say so.                 *)

CatalogueTypeOK ==
    /\ \A k \in Category : category[k] = Absent \/ category[k] \in CategoryRow
    /\ \A u \in Unit : unit[u] = Absent \/ unit[u] \in UnitRow
    /\ \A p \in Product : product[p] = Absent \/ product[p] \in ProductRow
    /\ \A p \in Product, u \in Unit :
          conversion[p][u] = Absent \/ conversion[p][u] \in ConversionRow
    /\ \A i \in Price : price[i] = Absent \/ price[i] \in PriceRow

CategoryTree ==
    \A k \in Category : LiveCategory(k) =>
        /\ ~NameTaken(k, category[k].name)
        /\ \A n \in 1..Cardinality(Category) : Walk(k)[n] # k

\* No live category is above itself, however often categories are moved and
\* deleted, and no two have one name (wave-3-product-master-addendum.md:115).
CategoriesAreATree == ~Overlap => CategoryTree

\* The factors of a live product count its base unit, the one there was when
\* they were entered, in units that exist; going from unit to unit they agree
\* with each other, rounding aside; a deleted product keeps none.
FactorsFit ==
    \A p \in Product : product[p] # Absent =>
        IF ~product[p].live THEN \A u \in Unit : conversion[p][u] = Absent
        ELSE /\ unit[product[p].base] = "live"
             /\ \A u \in Unit : conversion[p][u] # Absent =>
                  unit[u] = "live" /\ conversion[p][u].of = product[p].base
             /\ \A u, v, w \in Known(p) :
                  Same(Times(ResolveFactor(p, u, v), ResolveFactor(p, v, w)),
                       ResolveFactor(p, u, w))
FactorsFitBase == ~Overlap => FactorsFit

\* Whoever asks for the price of a quantity finds one row at most, whatever
\* rows were made and deleted.
OnePrice ==
    \A p \in Product, c \in Client \cup {Absent}, n \in 0..3 : Cardinality(Resolved(p, c, n)) <= 1
PriceIsUnambiguous == ~Overlap => OnePrice

\* One request at a time, the master data stays fit to be used: categories,
\* unit factors and prices.
CatalogueIsSound == CategoriesAreATree /\ FactorsFitBase /\ PriceIsUnambiguous

=============================================================================
