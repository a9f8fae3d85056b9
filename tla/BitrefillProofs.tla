----------------------------- MODULE BitrefillProofs -----------------------------
(***************************************************************************)
(* What is bought at Bitrefill as one system: the invoice and the chain    *)
(* side by side, for every number of processes, keys and bindings, any     *)
(* forms and any commands of the operator.  What is proved of each machine *)
(* holds in the composition, since neither moves what is the other's; and  *)
(* the judgements both rest on are proved first for whatever is judged.    *)
(***************************************************************************)
EXTENDS MCBitrefill, InstrumentInvoiceProofs, FiniteSetTheorems

-----------------------------------------------------------------------------
(* The two machines in the composition.                                    *)

LEMMA InvoiceRuns == BitrefillSpec => Spec
<1>1. BitrefillInit => Init
  BY DEF BitrefillInit
<1>2. [BitrefillNext]_<<subject, vars, chainVars>> => [Next]_vars
  BY DEF BitrefillNext
<1> QED
  BY <1>1, <1>2, PTL DEF BitrefillSpec, Spec

LEMMA ChainRuns == BitrefillSpec => Chain!Spec
<1>1. BitrefillInit => Chain!Init
  BY DEF BitrefillInit
<1>2. [BitrefillNext]_<<subject, vars, chainVars>> => [Chain!Next]_Chain!vars
  BY DEF BitrefillNext, chainVars, Chain!vars, Chain!durable
<1> QED
  BY <1>1, <1>2, PTL DEF BitrefillSpec, Chain!Spec

-----------------------------------------------------------------------------
(* The judgements, for whatever is judged.                                 *)

\* Inspection foresees what preparing will find: a form that it calls supported
\* is filled without a human, and one that it does not is not, once there is a
\* profile and the amount fits (inspectFieldSupport, satisfyPrepaymentFields).
THEOREM InspectionForesees ==
    ASSUME NEW fields, NEW profile, profile # Absent, NEW amount, NEW step,
           \A field \in Chain!ToSet(fields) : Chain!Fits(field, amount)
    PROVE  Chain!inspectFieldSupport(fields, step) = "supported"
               <=> Chain!satisfyPrepaymentFields(fields, profile, amount, step) = "supported"
<1> DEFINE Stops(i) ==
        \/ \/ fields[i].name = Chain!AmountField /\ ~ Chain!isSupportedBillAmount(fields[i], step)
           \/ ~ Chain!Fits(fields[i], amount)
        \/ Chain!StopsAt(fields[i], step, profile)
<1> DEFINE Asks(i) ==
        \/ Chain!requiresHumanAction(fields[i])
        \/ fields[i].required /\ ~ Chain!isApprovedPrepaymentField(fields[i], step)
<1>1. Chain!satisfyPrepaymentFields(fields, profile, amount, step) = "supported"
          <=> {i \in DOMAIN fields : Stops(i)} = {}
  BY Zenon DEF Chain!satisfyPrepaymentFields
<1>2. Chain!inspectFieldSupport(fields, step) = "supported"
          <=> /\ \A i \in DOMAIN fields :
                    fields[i].name = Chain!AmountField => Chain!isSupportedBillAmount(fields[i], step)
              /\ \A i \in DOMAIN fields : ~ Asks(i)
  BY DEF Chain!inspectFieldSupport, Chain!BillAmountContract, Chain!ToSet
<1>3. \A i \in DOMAIN fields : Chain!Fits(fields[i], amount)
  BY DEF Chain!ToSet
<1>4. \A i \in DOMAIN fields : Chain!StopsAt(fields[i], step, profile) <=> Asks(i)
  BY DEF Chain!StopsAt
<1>5. {i \in DOMAIN fields : Stops(i)} = {} <=> \A i \in DOMAIN fields : ~ Stops(i)
  OBVIOUS
<1> QED
  BY <1>1, <1>2, <1>3, <1>4, <1>5

\* An invoice that can be read is accepted when it is created just when the
\* next look at it finds it unpaid, whatever the shop wrote
\* (assertUnpaidLightningInvoiceForAcquisition, mapInvoiceReconciliation).
THEOREM AcceptedJustWhenUnpaid ==
    ASSUME NEW invoice, Parses(invoice), NEW purchase
    PROVE  AcceptedAsCreated(invoice, purchase)
               <=> mapInvoiceReconciliation(invoice, invoice.id, purchase) = "UNPAID"
<1> DEFINE status == normalizeInvoiceStatus(invoice.status, invoice.payment)
<1> DEFINE identified == /\ Len(invoice.orders) = 1
                         /\ OrderIsFor(invoice.orders[1], purchase)
                         /\ invoice.method = "lightning"
<1> DEFINE untouched == /\ invoice.payment = "unpaid"
                        /\ normalizeOrderStatus(invoice.orders[1].status) = "CREATED"
<1>1. AcceptedAsCreated(invoice, purchase) <=> identified /\ status = "UNPAID" /\ untouched
  BY DEF AcceptedAsCreated, Parses
<1>2. mapInvoiceReconciliation(invoice, invoice.id, purchase)
          = CASE ~ identified -> "MISMATCH"
              [] identified /\ status \in UNEXPECTED_PAID_INVOICE_STATES -> "UNEXPECTED_PAYMENT"
              [] identified /\ status = "UNPAID" -> IF untouched THEN "UNPAID" ELSE "MISMATCH"
              [] OTHER -> "AMBIGUOUS"
  BY DEF mapInvoiceReconciliation
<1>3. "UNPAID" \notin UNEXPECTED_PAID_INVOICE_STATES
  BY DEF UNEXPECTED_PAID_INVOICE_STATES
<1> HIDE DEF status, identified, untouched
<1> QED
  BY <1>1, <1>2, <1>3

\* Cardinality, under the name that the instance gives it.
LEMMA CountedAlike ==
    ASSUME NEW S
    PROVE  Product!Cardinality(S) = Cardinality(S)
  BY Zenon DEF Product!Cardinality, Cardinality

\* What selectDenomination returns.
LEMMA SelectedDenomination ==
    ASSUME NEW product, NEW faceValue,
           Product!selectDenomination(product, faceValue) # Refused
    PROVE  \/ Product!selectDenomination(product, faceValue) = Product!InRange(faceValue)
           \/ \E i \in DOMAIN product.packages :
                 Product!selectDenomination(product, faceValue)
                     = Product!Package(product.packages[i].id, faceValue)
<1> DEFINE matching == Product!PackagesWorth(product, faceValue)
<1> DEFINE chosen == CHOOSE i \in matching : TRUE
<1> DEFINE selected == Product!selectDenomination(product, faceValue)
<1>1. \/ selected = Refused
      \/ selected = Product!InRange(faceValue)
      \/ /\ Cardinality(matching) = 1
         /\ selected = Product!Package(product.packages[chosen].id, faceValue)
  BY CountedAlike DEF Product!selectDenomination
<1>2. ASSUME Cardinality(matching) = 1 PROVE chosen \in DOMAIN product.packages
  <2>1. matching # {}
    BY <1>2, FS_EmptySet
  <2>2. chosen \in matching
    BY <2>1
  <2> QED
    BY <2>2 DEF Product!PackagesWorth
<1> QED
  BY <1>1, <1>2

\* Whatever became of the product since it was authorized, what is bought of it
\* is of the value authorized, or nothing is bought (resolveInstrument, then
\* revalidateBeforeExecuting).
THEOREM BoughtAtTheValue ==
    ASSUME NEW before, NEW now, NEW faceValue,
           \A i \in DOMAIN before.packages : before.packages[i].id # Absent,
           NEW bound, bound = Product!Resolved(before, faceValue), bound # Refused,
           NEW current, current = Product!Revalidated(before, bound, now), current # Refused
    PROVE  /\ Sold(Product!RequestedOf(current), now) = {faceValue}
           /\ ~ Product!humanActionRequired(now)
           /\ now.currency = before.currency
<1>1. bound = Product!selectDenomination(before, faceValue)
  BY DEF Product!Resolved
<1>2. /\ Product!assertProductUnchanged(before, now)
      /\ Product!assertProductExecutable(now)
      /\ current = Product!revalidateBoundDenomination(bound, now)
  BY DEF Product!Revalidated
<1>3. ~ Product!humanActionRequired(now) /\ now.currency = before.currency
  BY <1>2 DEF Product!assertProductUnchanged, Product!assertProductExecutable
<1>4. CASE bound = Product!InRange(faceValue)
  <2>1. bound.kind = "range" /\ bound.faceValue = faceValue
    BY <1>4 DEF Product!InRange
  <2>2. current = Product!selectDenomination(now, faceValue) /\ current.kind = "range"
    BY <1>2, <2>1 DEF Product!revalidateBoundDenomination
  <2>3. current = Product!InRange(faceValue)
    BY <2>2, SelectedDenomination DEF Product!Package
  <2>4. Product!RequestedOf(current) = [packageId |-> Absent, value |-> faceValue]
    BY <2>3 DEF Product!RequestedOf, Product!InRange
  <2> QED
    BY <1>3, <2>4 DEF Sold
<1>5. CASE \E i \in DOMAIN before.packages :
              bound = Product!Package(before.packages[i].id, faceValue)
  <2>1. PICK i \in DOMAIN before.packages : bound = Product!Package(before.packages[i].id, faceValue)
    BY <1>5
  <2>2. PICK id : id = before.packages[i].id /\ id # Absent
    OBVIOUS
  <2>3. bound.kind = "package" /\ bound.packageId = id /\ bound.faceValue = faceValue
    BY <2>1, <2>2 DEF Product!Package
  <2>4. /\ current = bound
        /\ Cardinality(Product!PackagesWith(now, id)) = 1
        /\ \A j \in Product!PackagesWith(now, id) : now.packages[j].value = faceValue
    BY <1>2, <2>3, CountedAlike DEF Product!revalidateBoundDenomination
  <2>5. Product!RequestedOf(current) = [packageId |-> id, value |-> Absent]
    BY <2>3, <2>4 DEF Product!RequestedOf
  <2>6. Sold(Product!RequestedOf(current), now)
            = {now.packages[j].value : j \in Product!PackagesWith(now, id)}
    BY <2>2, <2>5 DEF Sold, Product!PackagesWith
  <2>7. Product!PackagesWith(now, id) # {}
    BY <2>4, FS_EmptySet
  <2> QED
    BY <1>3, <2>4, <2>6, <2>7
<1> QED
  BY <1>1, <1>4, <1>5, SelectedDenomination

-----------------------------------------------------------------------------
(* Money.                                                                  *)

\* A set of numbers has a least one.
LEMMA LeastElement ==
    ASSUME NEW S \in SUBSET Nat, S # {}
    PROVE  \E n \in S : \A k \in S : n <= k
<1> DEFINE Below == {0 .. n : n \in S}
<1>1. IsWellFoundedOn(StrictSubsetOrdering(Nat), FiniteSubsetsOf(Nat))
  BY FS_StrictSubsetOrderingWellFounded
<1>2. Below \subseteq FiniteSubsetsOf(Nat)
  <2> SUFFICES ASSUME NEW n \in S PROVE 0 .. n \in FiniteSubsetsOf(Nat)
    OBVIOUS
  <2>1. IsFiniteSet(0 .. n)
    BY FS_Interval
  <2> QED
    BY <2>1 DEF FiniteSubsetsOf
<1>3. Below # {}
  OBVIOUS
<1>4. PICK least \in Below : \A other \in Below : <<other, least>> \notin StrictSubsetOrdering(Nat)
  <2> HIDE DEF Below
  <2> QED
    BY <1>1, <1>2, <1>3, WFMin
<1>5. PICK n \in S : least = 0 .. n
  OBVIOUS
<1>6. ASSUME NEW k \in S, k < n PROVE FALSE
  <2>1. 0 .. k \in Below
    OBVIOUS
  <2>2. 0 .. k \subseteq 0 .. n /\ n \in 0 .. n /\ n \notin 0 .. k
    BY <1>6
  <2>3. <<0 .. k, 0 .. n>> \in StrictSubsetOrdering(Nat)
    BY <2>2 DEF StrictSubsetOrdering
  <2> QED
    BY <1>4, <1>5, <2>1, <2>3
<1> QED
  BY <1>6

\* Division with remainder.
LEMMA Division ==
    ASSUME NEW a \in Nat, NEW b \in Nat, b > 0
    PROVE  /\ a \div b \in Nat /\ a % b \in Nat
           /\ a = b * (a \div b) + (a % b) /\ a % b < b
<1>1. a \div b \in Int /\ a % b \in Int
  OBVIOUS
<1>2. a \div b >= 0
  OBVIOUS
<1>3. a = b * (a \div b) + (a % b)
  OBVIOUS
<1>4. a % b >= 0 /\ a % b < b
  OBVIOUS
<1> QED
  BY <1>1, <1>2, <1>3, <1>4

\* MoneyAssumption, in the form in which it is used.
LEMMA MoneyFacts ==
    /\ Half \in Nat /\ Half > 0 /\ One \in Units /\ One \in Nat /\ Epsilon \in Nat
    /\ \A u \in Units : u \in Nat /\ u > 0
    /\ 200 * Half <= One /\ 4 * Epsilon < One /\ MaxSafeInteger = 2 * Half - 1
    /\ Refused \notin Nat
    /\ \A u \in Units, v \in Units : v <= u => \E k \in Nat : u = v * k
<1>1. ASSUME NEW u \in Units, NEW v \in Units, v <= u PROVE \E k \in Nat : u = v * k
  <2>1. u \in Nat /\ v \in Nat /\ v > 0 /\ u % v = 0
    BY <1>1, MoneyAssumption
  <2>2. u = v * (u \div v) + (u % v) /\ u \div v \in Nat
    BY <2>1, Division
  <2>3. u = v * (u \div v)
    BY <2>1, <2>2
  <2> QED
    BY <2>2, <2>3
<1>2. One \in Units /\ Refused \notin Nat
  BY MoneyAssumption, Zenon
<1>3. \A u \in Units : u \in Nat /\ u > 0
  BY MoneyAssumption
<1>4. /\ Half \in Nat /\ Half > 0 /\ Epsilon \in Nat
      /\ 200 * Half <= One /\ 4 * Epsilon < One /\ MaxSafeInteger = 2 * Half - 1
  BY MoneyAssumption
<1> QED
  BY <1>1, <1>2, <1>3, <1>4

\* The unit of a number that is not too great.
LEMMA UlpFacts ==
    ASSUME NEW grains \in Nat, grains < 2 * One * Half
    PROVE  /\ Ulp(grains) \in Units
           /\ grains < 2 * Ulp(grains) * Half
           /\ Ulp(grains) = 1 \/ Ulp(grains) * Half <= grains
<1> DEFINE Large == {u \in Units : grains < 2 * u * Half}
<1>1. Large \in SUBSET Nat /\ Large # {}
  BY MoneyFacts
<1>2. PICK u \in Large : \A v \in Large : u <= v
  BY <1>1, LeastElement
<1>3. u = 1 \/ u * Half <= grains
  <2> SUFFICES ASSUME u # 1 PROVE u * Half <= grains
    OBVIOUS
  <2>1. PICK v \in Units : u = 2 * v
    BY MoneyAssumption
  <2>2. v \in Nat /\ u \in Nat /\ v > 0
    BY MoneyFacts
  <2>3. v < u
    BY <2>1, <2>2
  <2>4. ~ (grains < 2 * v * Half)
    BY <1>2, <2>2, <2>3
  <2> QED
    BY <2>1, <2>2, <2>4, MoneyFacts
<1> QED
  BY <1>2, <1>3 DEF Ulp

\* Multiples of a positive number are ordered as what they are multiples by.
LEMMA Multiples ==
    ASSUME NEW d \in Nat, d > 0, NEW a \in Int, NEW b \in Int
    PROVE  /\ d * a \in Int
           /\ d * a < d * b => a < b
           /\ a <= b => d * a <= d * b
<1>1. a <= b => d * a <= d * b
  OBVIOUS
<1>2. b <= a => d * b <= d * a
  OBVIOUS
<1> QED
  BY <1>1, <1>2

\* The nearest double is a multiple of its unit within half a unit, and on the
\* same side of every other multiple.
LEMMA NearestFacts ==
    ASSUME NEW num \in Nat, NEW den \in Nat, den > 0, num \div den < 2 * One * Half,
           NEW u, u = Ulp(num \div den), NEW near, near = Nearest(num, den)
    PROVE  /\ u \in Units /\ near \in Nat
           /\ num < 2 * u * Half * den
           /\ u = 1 \/ u * Half * den <= num
           /\ 2 * num <= 2 * (den * near) + den * u
           /\ 2 * (den * near) <= 2 * num + den * u
           /\ \A j \in Nat : u * j * den <= num => u * j <= near
           /\ \A j \in Nat : num <= u * j * den => near <= u * j
<1>1. num \div den \in Nat /\ num = den * (num \div den) + (num % den)
      /\ num % den \in Nat /\ num % den < den
  BY Division
<1>2. /\ u \in Units /\ u \in Nat /\ u > 0
      /\ num \div den < 2 * u * Half
      /\ u = 1 \/ u * Half <= num \div den
  BY <1>1, UlpFacts, MoneyFacts
<1> DEFINE d == den * u
           whole == num \div d
           rest == num % d
<1>3. d \in Nat /\ d > 0
  BY <1>2
<1>4. /\ whole \in Nat /\ rest \in Nat /\ rest < d
      /\ num = d * whole + rest
  BY <1>3, Division
<1>5. \/ near = u * whole /\ 2 * rest <= d
      \/ near = u * (whole + 1) /\ 2 * rest >= d
  <2> DEFINE up == 2 * rest > d \/ (2 * rest = d /\ whole % 2 = 1)
  <2>1. near = u * (IF up THEN whole + 1 ELSE whole)
    BY DEF Nearest
  <2> HIDE DEF d, whole, rest
  <2>2. CASE up
    <3>1. 2 * rest >= d
      BY <1>3, <1>4, <2>2
    <3> HIDE DEF up
    <3> QED
      BY <2>1, <2>2, <3>1
  <2>3. CASE ~ up
    <3>1. 2 * rest <= d
      BY <1>3, <1>4, <2>3
    <3> HIDE DEF up
    <3> QED
      BY <2>1, <2>3, <3>1
  <2> QED
    BY <2>2, <2>3
<1> HIDE DEF d, whole, rest
<1>6. d = den * u
  BY DEF d
<1>7. near \in Nat /\ 2 * num <= 2 * (den * near) + d /\ 2 * (den * near) <= 2 * num + d
  <2>1. CASE near = u * whole /\ 2 * rest <= d
    <3>1. den * near = d * whole
      BY <1>2, <1>4, <1>6, <2>1
    <3> QED
      BY <1>2, <1>3, <1>4, <2>1, <3>1
  <2>2. CASE near = u * (whole + 1) /\ 2 * rest >= d
    <3>1. den * near = d * (whole + 1)
      BY <1>2, <1>4, <1>6, <2>2
    <3>2. d * (whole + 1) = d * whole + d
      BY <1>3, <1>4
    <3> QED
      BY <1>2, <1>3, <1>4, <2>2, <3>1, <3>2
  <2> QED
    BY <1>5, <2>1, <2>2
<1>8. ASSUME NEW j \in Nat, u * j * den <= num PROVE u * j <= near
  <2>1. d * j <= num
    BY <1>2, <1>6, <1>8
  <2>2. d * j < d * (whole + 1)
    BY <1>3, <1>4, <2>1
  <2>3. j <= whole
    BY <1>3, <1>4, <2>2, Multiples
  <2>4. u * j <= u * whole /\ u * whole <= u * (whole + 1)
    BY <1>2, <1>4, <2>3, Multiples
  <2> QED
    BY <1>5, <2>4, <1>2, <1>4
<1>9. ASSUME NEW j \in Nat, num <= u * j * den PROVE near <= u * j
  <2>1. num <= d * j
    BY <1>2, <1>6, <1>9
  <2>2. CASE near = u * whole /\ 2 * rest <= d
    <3>1. d * whole < d * (j + 1)
      BY <1>3, <1>4, <2>1
    <3>2. whole <= j
      BY <1>3, <1>4, <3>1, Multiples
    <3> QED
      BY <1>2, <1>4, <2>2, <3>2, Multiples
  <2>3. CASE near = u * (whole + 1) /\ 2 * rest >= d
    <3>1. d * whole < d * j
      BY <1>3, <1>4, <2>1, <2>3
    <3>2. whole + 1 <= j
      BY <1>3, <1>4, <3>1, Multiples
    <3> QED
      BY <1>2, <1>4, <2>3, <3>2, Multiples
  <2> QED
    BY <1>5, <2>2, <2>3
<1>10. num < 2 * u * Half * den
  <2> DEFINE c == num \div den
             e == 2 * u * Half
  <2>1. c \in Nat /\ e \in Nat /\ c + 1 <= e
    BY <1>1, <1>2, MoneyFacts
  <2>2. num < den * (c + 1)
    BY <1>1
  <2>3. den * (c + 1) <= den * e
    <3> HIDE DEF c, e
    <3> QED
      BY <2>1, Multiples
  <2>4. den * e = 2 * u * Half * den
    BY <1>2, MoneyFacts
  <2> QED
    BY <1>1, <2>1, <2>2, <2>3, <2>4
<1>11. u = 1 \/ u * Half * den <= num
  <2> SUFFICES ASSUME u * Half <= num \div den PROVE u * Half * den <= num
    BY <1>2
  <2> DEFINE c == num \div den
             e == u * Half
  <2>1. c \in Nat /\ e \in Nat /\ e <= c /\ num >= den * c
    BY <1>1, <1>2, MoneyFacts
  <2>2. den * e <= den * c
    <3> HIDE DEF c, e
    <3> QED
      BY <2>1, Multiples
  <2> QED
    BY <2>1, <2>2, <1>2, MoneyFacts
<1> QED
  BY <1>2, <1>6, <1>7, <1>8, <1>9, <1>10, <1>11

\* A number that is at most b / 100, times 100, is at most b and one unit of b
\* when it is computed: reading and multiplying are each rounded.
LEMMA ReadUpTo ==
    ASSUME NEW num \in Nat, NEW den \in Nat, den > 0,
           NEW b \in Nat, One <= 2 * b, b <= Half * One, 100 * num <= b * den,
           NEW w \in Units, NEW j \in Nat, b = w * j, b < 2 * w * Half, w <= One,
           NEW value, value = Nearest(num, den), NEW scaled, scaled = Nearest(100 * value, 1)
    PROVE  /\ num \div den < 2 * One * Half
           /\ value \in Nat /\ 100 * value < b + w /\ 100 * value < 2 * One * Half
           /\ scaled \in Nat /\ scaled <= b + w
<1>1. Half \in Nat /\ Half > 0 /\ One \in Nat /\ 200 * Half <= One /\ w \in Nat /\ w > 0
  BY MoneyFacts
<1>2. num \div den < 2 * One * Half
  <2> DEFINE c == num \div den
  <2>1. c \in Nat /\ den * c <= num
    BY Division
  <2> HIDE DEF c
  <2>2. PICK e \in Nat : e = 2 * One * Half
    BY <1>1
  <2>3. b < e
    BY <1>1, <2>2
  <2>4. den * b < den * e
    <3>1. den * b < den * b + den
      BY <1>1
    <3>2. den * (b + 1) <= den * e
      BY <2>2, <2>3, Multiples
    <3>3. den * (b + 1) = den * b + den
      OBVIOUS
    <3> QED
      BY <3>1, <3>2, <3>3
  <2>5. num <= 100 * num /\ b * den = den * b
    OBVIOUS
  <2>6. den * c < den * e
    BY <2>1, <2>2, <2>4, <2>5
  <2>7. c < e
    BY <2>1, <2>2, <2>6, Multiples
  <2> QED
    BY <2>2, <2>7 DEF c
<1> DEFINE u == Ulp(num \div den)
<1>3. /\ u \in Units /\ value \in Nat
      /\ u = 1 \/ u * Half * den <= num
      /\ 2 * (den * value) <= 2 * num + den * u
      /\ \A k \in Nat : num <= u * k * den => value <= u * k
  BY <1>2, NearestFacts
<1> HIDE DEF u
<1>4. u \in Nat /\ u > 0
  BY <1>3, MoneyFacts
<1>5. 100 * value < b + w
  <2>1. CASE u * Half * den <= num
    <3>1. PICK dv \in Nat : dv = den * value
      BY <1>3
    <3>2. PICK du \in Nat : du = den * u
      BY <1>4
    <3>3. PICK db \in Nat : db = den * b
      OBVIOUS
    <3>4. PICK hdu \in Nat : hdu = Half * du
      BY <1>1
    <3>5. hdu <= num /\ 100 * num <= db /\ 2 * dv <= 2 * num + du
      BY <1>1, <1>3, <1>4, <2>1, <3>1, <3>2, <3>3, <3>4
    <3>6. PICK hdv \in Nat, hdb \in Nat, hn \in Nat :
              hdv = Half * dv /\ hdb = Half * db /\ hn = Half * num
      BY <1>1
    <3>7. 2 * hdv <= 2 * hn + hdu
      <4>1. Half * (2 * dv) <= Half * (2 * num + du)
        BY <1>1, <3>5, Multiples
      <4> QED
        BY <1>1, <3>4, <3>6, <4>1
    <3>8. 100 * hn <= hdb
      <4>1. Half * (100 * num) <= Half * db
        BY <1>1, <3>5, Multiples
      <4> QED
        BY <1>1, <3>6, <4>1
    <3>9. 200 * hdv <= 2 * hdb + db
      BY <3>5, <3>7, <3>8
    <3>10. PICK hw \in Nat : hw = Half * w
      BY <1>1
    <3>11. PICK hv \in Nat, hb \in Nat : hv = Half * value /\ hb = Half * b
      BY <1>1, <1>3
    <3>12. den * (200 * hv) <= den * (2 * hb + b)
      BY <1>1, <1>3, <3>1, <3>3, <3>6, <3>9, <3>11
    <3>13. 200 * hv <= 2 * hb + b
      BY <3>11, <3>12, Multiples
    <3>14. b < 2 * hw
      BY <1>1, <3>10
    <3>15. Half * (100 * value) < Half * (b + w)
      BY <1>1, <1>3, <3>10, <3>11, <3>13, <3>14
    <3> QED
      BY <1>1, <1>3, <3>15, Multiples
  <2>2. CASE ~ (u * Half * den <= num)
    <3>1. u = 1 /\ num <= u * Half * den
      BY <1>1, <1>3, <1>4, <2>2
    <3>2. value <= u * Half
      BY <1>1, <1>3, <3>1
    <3> QED
      BY <1>1, <1>3, <3>1, <3>2
  <2> QED
    BY <2>1, <2>2
<1>6. 100 * value < 2 * One * Half
  <2>1. PICK e \in Nat : e = One * Half
    BY <1>1
  <2>2. One <= e /\ Half * One = e /\ 2 * One * Half = 2 * e
    BY <1>1, <2>1
  <2> QED
    BY <1>1, <1>3, <1>5, <2>1, <2>2
<1>7. scaled \in Nat /\ scaled <= b + w
  <2> DEFINE r == 100 * value
             w2 == Ulp(r \div 1)
  <2>1. r \in Nat /\ r \div 1 = r
    BY <1>3
  <2>2. /\ w2 \in Units /\ scaled \in Nat
        /\ w2 = 1 \/ w2 * Half * 1 <= r
        /\ \A k \in Nat : r <= w2 * k * 1 => scaled <= w2 * k
    BY <1>6, <2>1, NearestFacts
  <2>3. w2 \in Nat /\ w2 > 0
    BY <2>2, MoneyFacts
  <2> HIDE DEF w2
  <2>4. r < b + w
    BY <1>5
  <2> HIDE DEF r
  <2>5. CASE w2 <= w
    <3>1. PICK k \in Nat : w = w2 * k
      BY <2>2, <2>5, MoneyFacts
    <3>2. PICK i \in Nat : i = k * (j + 1)
      OBVIOUS
    <3>3. w2 * i = b + w
      BY <1>1, <2>3, <3>1, <3>2
    <3>4. r <= w2 * i * 1
      BY <1>1, <2>1, <2>3, <2>4, <3>3
    <3>5. scaled <= w2 * i
      BY <2>2, <3>2, <3>4
    <3> QED
      BY <3>3, <3>5, <2>2
  <2>6. CASE w2 > w
    <3>1. PICK k \in Nat : w2 = w * k
      BY <2>2, <2>6, <2>3, <1>1, MoneyFacts
    <3>2. k >= 2
      BY <1>1, <2>6, <3>1
    <3>3. w2 >= 2 * w
      BY <1>1, <3>1, <3>2
    <3>4. j < 2 * Half
      <4>1. w * j < w * (2 * Half)
        BY <1>1
      <4> QED
        BY <1>1, <4>1, Multiples
    <3>5. w * (j + 1) <= w * (2 * Half)
      BY <1>1, <3>4, Multiples
    <3>6. Half * (2 * w) <= Half * w2
      BY <1>1, <2>3, <3>3, Multiples
    <3>7. w2 * Half <= r
      BY <1>1, <2>2, <2>6, <2>3
    <3> QED
      BY <1>1, <2>1, <2>3, <2>4, <3>5, <3>6, <3>7
  <2> QED
    BY <1>1, <2>2, <2>3, <2>5, <2>6
<1> QED
  BY <1>2, <1>3, <1>5, <1>6, <1>7

\* A number that is at least a / 100, times 100, is at least a less one unit of
\* a when it is computed.
LEMMA ReadFrom ==
    ASSUME NEW num \in Nat, NEW den \in Nat, den > 0,
           NEW a \in Nat, One <= 2 * a, a * den <= 100 * num,
           NEW w \in Units, NEW j \in Nat, a = w * j, a < 2 * w * Half,
           num \div den < 2 * One * Half,
           NEW value, value = Nearest(num, den), NEW scaled, scaled = Nearest(100 * value, 1),
           100 * value < 2 * One * Half
    PROVE  100 * value > a - w /\ scaled >= a - w
<1>1. Half \in Nat /\ Half > 0 /\ One \in Nat /\ 200 * Half <= One /\ w \in Nat /\ w > 0
  BY MoneyFacts
<1> DEFINE u == Ulp(num \div den)
<1>2. /\ u \in Units /\ value \in Nat
      /\ u = 1 \/ u * Half * den <= num
      /\ 2 * num <= 2 * (den * value) + den * u
  BY NearestFacts
<1> HIDE DEF u
<1>3. u \in Nat /\ u > 0
  BY <1>2, MoneyFacts
<1>4. u * Half * den <= num
  <2> SUFFICES ASSUME u = 1 PROVE Half * den <= num
    BY <1>1, <1>2
  <2>1. PICK hd \in Nat, od \in Nat, ad \in Nat : hd = den * Half /\ od = den * One /\ ad = den * a
    BY <1>1
  <2>2. 200 * hd <= od
    <3>1. den * (200 * Half) <= den * One
      BY <1>1, Multiples
    <3> QED
      BY <1>1, <2>1, <3>1
  <2>3. od <= 2 * ad
    <3>1. den * One <= den * (2 * a)
      BY <1>1, Multiples
    <3> QED
      BY <1>1, <2>1, <3>1
  <2>4. ad <= 100 * num
    BY <2>1
  <2>5. hd <= num
    BY <2>2, <2>3, <2>4
  <2> QED
    BY <1>1, <2>1, <2>5
<1>5. 100 * value > a - w
  <2>1. PICK dv \in Nat : dv = den * value
    BY <1>2
  <2>2. PICK du \in Nat : du = den * u
    BY <1>3
  <2>3. PICK da \in Nat : da = den * a
    OBVIOUS
  <2>4. PICK hdu \in Nat : hdu = Half * du
    BY <1>1
  <2>5. hdu <= num /\ da <= 100 * num /\ 2 * num <= 2 * dv + du
    BY <1>1, <1>2, <1>3, <1>4, <2>1, <2>2, <2>3, <2>4
  <2>6. PICK hdv \in Nat, hda \in Nat, hn \in Nat :
            hdv = Half * dv /\ hda = Half * da /\ hn = Half * num
    BY <1>1
  <2>7. 2 * hn <= 2 * hdv + hdu
    <3>1. Half * (2 * num) <= Half * (2 * dv + du)
      BY <1>1, <2>5, Multiples
    <3> QED
      BY <1>1, <2>4, <2>6, <3>1
  <2>8. PICK hn1 \in Nat, hda1 \in Nat : hn1 = (2 * Half - 1) * num /\ hda1 = (2 * Half - 1) * da
    BY <1>1
  <2>9. hn1 = 2 * hn - num /\ hda1 = 2 * hda - da
    BY <1>1, <2>6, <2>8
  <2>10. hda1 <= 100 * hn1
    <3>1. (2 * Half - 1) * da <= (2 * Half - 1) * (100 * num)
      BY <1>1, <2>5, Multiples
    <3> QED
      BY <1>1, <2>8, <3>1
  <2>11. 2 * hda - da <= 200 * hdv
    BY <2>5, <2>7, <2>9, <2>10
  <2>12. PICK hv \in Nat, ha \in Nat, hw \in Nat : hv = Half * value /\ ha = Half * a /\ hw = Half * w
    BY <1>1, <1>2
  <2>13. den * (2 * ha - a) <= den * (200 * hv)
    <3>1. hda = den * ha /\ hdv = den * hv
      BY <1>1, <1>2, <2>1, <2>3, <2>6, <2>12
    <3> QED
      BY <2>3, <2>11, <2>12, <3>1
  <2>14. 2 * ha - a <= 200 * hv
    BY <2>12, <2>13, Multiples
  <2>15. a < 2 * hw
    BY <1>1, <2>12
  <2>16. Half * (a - w) < Half * (100 * value)
    BY <1>1, <1>2, <2>12, <2>14, <2>15
  <2>17. a - w \in Int /\ 100 * value \in Int
    BY <1>1, <1>2
  <2> QED
    BY <1>1, <2>16, <2>17, Multiples
<1>6. scaled >= a - w
  <2> DEFINE r == 100 * value
             w2 == Ulp(r \div 1)
  <2>1. r \in Nat /\ r \div 1 = r
    BY <1>2
  <2>2. /\ w2 \in Units /\ scaled \in Nat
        /\ w2 = 1 \/ w2 * Half * 1 <= r
        /\ \A k \in Nat : w2 * k * 1 <= r => w2 * k <= scaled
    BY <2>1, NearestFacts
  <2>3. w2 \in Nat /\ w2 > 0
    BY <2>2, MoneyFacts
  <2> HIDE DEF w2
  <2>4. r > a - w
    BY <1>5
  <2> HIDE DEF r
  <2>5. CASE w2 <= w
    <3>1. PICK k \in Nat : w = w2 * k
      BY <2>2, <2>5, MoneyFacts
    <3>2. j >= 1
      BY <1>1
    <3>3. PICK i \in Nat : i = k * (j - 1)
      BY <3>2
    <3>4. w2 * i = a - w
      BY <1>1, <2>3, <3>1, <3>3
    <3>5. w2 * i * 1 <= r
      BY <1>1, <2>1, <2>3, <2>4, <3>4
    <3>6. w2 * i <= scaled
      BY <2>2, <3>3, <3>5
    <3> QED
      BY <3>4, <3>6, <2>2
  <2>6. CASE w2 > w
    <3>1. PICK k \in Nat : w2 = w * k
      BY <2>2, <2>6, <2>3, <1>1, MoneyFacts
    <3>2. k >= 2
      BY <1>1, <2>6, <3>1
    <3>3. w2 >= 2 * w
      BY <1>1, <3>1, <3>2
    <3>4. Half * (2 * w) <= Half * w2
      BY <1>1, <2>3, <3>3, Multiples
    <3>5. w2 * Half * 1 <= r
      BY <1>1, <2>2, <2>6, <2>3
    <3>6. w2 * Half <= scaled
      BY <1>1, <2>2, <3>5
    <3> QED
      BY <1>1, <2>2, <2>3, <3>4, <3>6
  <2> QED
    BY <1>1, <2>2, <2>3, <2>5, <2>6
<1> QED
  BY <1>5, <1>6

\* Of a number below Half the unit is at most a half, which it divides.
LEMMA UnitFacts ==
    ASSUME NEW b \in Nat, b < Half * One, NEW w, w = Ulp(b)
    PROVE  /\ w \in Units /\ b < 2 * w * Half /\ 2 * w <= One
           /\ \E k \in Nat : One = 2 * (w * k)
<1>1. Half \in Nat /\ Half > 0 /\ One \in Units /\ One \in Nat /\ 200 * Half <= One
  BY MoneyFacts
<1>2. b < 2 * One * Half
  <2>1. PICK e \in Nat : e = Half * One
    BY <1>1
  <2> QED
    BY <1>1, <2>1
<1>3. w \in Units /\ b < 2 * w * Half /\ (w = 1 \/ w * Half <= b)
  BY <1>2, UlpFacts
<1>4. w \in Nat /\ w > 0
  BY <1>3, MoneyFacts
<1>5. w < One
  <2>1. CASE w = 1
    BY <1>1, <2>1
  <2>2. CASE w * Half <= b
    <3>1. Half * w < Half * One
      BY <1>1, <1>4, <2>2
    <3> QED
      BY <1>1, <1>4, <3>1, Multiples
  <2> QED
    BY <1>3, <2>1, <2>2
<1>6. PICK v \in Units : One = 2 * v
  <2>1. One # 1
    BY <1>1
  <2> QED
    BY <1>1, <2>1, MoneyAssumption
<1>7. v \in Nat /\ v > 0
  BY MoneyFacts
<1>8. w <= v
  <2>1. PICK k \in Nat : One = w * k
    <3>1. w <= One
      BY <1>1, <1>4, <1>5
    <3> QED
      BY <1>1, <1>3, <3>1, MoneyFacts
  <2>2. k >= 2
    BY <1>1, <1>4, <1>5, <2>1
  <2>3. w * 2 <= w * k
    BY <1>4, <2>2, Multiples
  <2> QED
    BY <1>4, <1>6, <1>7, <2>1, <2>3
<1>9. PICK k \in Nat : v = w * k
  BY <1>3, <1>8, MoneyFacts
<1> QED
  BY <1>3, <1>4, <1>6, <1>7, <1>8, <1>9

\* Nothing is below what is negative.
LEMMA Beyond == \A n, k \in Nat : k > 0 => n > 0 - k /\ n >= 0 - k
OBVIOUS

\* A number that is b / 100, times 100, is within one unit of b.
LEMMA ReadWithin ==
    ASSUME NEW num \in Nat, NEW den \in Nat, den > 0,
           NEW a \in Nat, NEW b \in Nat, One <= 2 * b, b < Half * One,
           a = 0 \/ One <= 2 * a, a <= b, a * den <= 100 * num, 100 * num <= b * den,
           NEW w, w = Ulp(b), NEW j \in Nat, b = w * j,
           NEW y, y = Ulp(a), NEW i \in Nat, a = y * i,
           NEW value, value = Nearest(num, den), NEW scaled, scaled = Nearest(100 * value, 1)
    PROVE  /\ value \in Nat /\ scaled \in Nat
           /\ 100 * value < b + w /\ scaled <= b + w
           /\ 100 * value > a - y /\ scaled >= a - y
<1>1. Half \in Nat /\ Half > 0 /\ One \in Nat /\ 200 * Half <= One
  BY MoneyFacts
<1>2. w \in Units /\ b < 2 * w * Half /\ w <= One
  <2>1. w \in Units /\ b < 2 * w * Half /\ 2 * w <= One
    BY UnitFacts
  <2> QED
    BY <1>1, <2>1, MoneyFacts
<1>3. /\ num \div den < 2 * One * Half
      /\ value \in Nat /\ 100 * value < b + w /\ 100 * value < 2 * One * Half
      /\ scaled \in Nat /\ scaled <= b + w
  <2>1. b <= Half * One
    BY <1>1
  <2> QED
    BY <1>2, <2>1, ReadUpTo
<1>4. y \in Units /\ a < 2 * y * Half
  <2>1. a < Half * One
    <3>1. PICK e \in Nat : e = Half * One
      BY <1>1
    <3> QED
      BY <3>1
  <2> QED
    BY <2>1, UnitFacts
<1>5. 100 * value > a - y /\ scaled >= a - y
  <2>1. CASE a = 0
    <3>1. y \in Nat /\ y > 0
      BY <1>4, MoneyFacts
    <3>2. 100 * value \in Nat /\ scaled \in Nat
      BY <1>3
    <3> QED
      BY <2>1, <3>1, <3>2, Beyond, Zenon
  <2>2. CASE One <= 2 * a
    BY <1>3, <1>4, <2>2, ReadFrom
  <2> QED
    BY <2>1, <2>2
<1> QED
  BY <1>3, <1>5

\* Math.round: a number within a half of n is rounded to n, and one a half
\* above it to n + 1.
LEMMA RoundedFacts ==
    ASSUME NEW value \in Nat, NEW near, near = roundedToInteger(value)
    PROVE  /\ near \in Nat
           /\ 2 * (near * One) <= 2 * value + One
           /\ 2 * value < 2 * (near * One) + One
<1>1. One \in Nat /\ One > 0
  BY MoneyFacts
<1> DEFINE top == 2 * value + One
<1>2. /\ near \in Nat /\ top % (2 * One) \in Nat
      /\ top = (2 * One) * near + (top % (2 * One)) /\ top % (2 * One) < 2 * One
  <2>1. top \in Nat /\ 2 * One \in Nat /\ 2 * One > 0
    BY <1>1
  <2>2. near = top \div (2 * One)
    BY DEF roundedToInteger
  <2> HIDE DEF top
  <2> QED
    BY <2>1, <2>2, Division
<1>3. PICK t \in Nat : t = near * One
  BY <1>1, <1>2
<1>4. (2 * One) * near = 2 * t
  BY <1>1, <1>2, <1>3
<1> QED
  BY <1>1, <1>2, <1>3, <1>4

\* What a number reads as, when computing it went wrong by less than a half.
LEMMA ReadingFacts ==
    ASSUME NEW value \in Nat, NEW scaled \in Nat, scaled = Nearest(100 * value, 1),
           NEW n \in Nat, NEW m \in Nat, m < Half,
           2 * (n * One) <= 2 * scaled + One, 2 * scaled <= 2 * (m * One) + One,
           n * One < 100 * value + One, 100 * value < m * One + One
    PROVE  /\ numberToMinorUnits(value) \in {Refused} \cup (n .. m)
           /\ n = m /\ scaled <= n * One + Epsilon /\ n * One <= scaled + Epsilon
                => numberToMinorUnits(value) = n
           /\ scaled > n * One + Epsilon /\ 100 * value > n * One /\ m = n + 1
              /\ scaled + Epsilon < m * One /\ 100 * value < m * One
                => numberToMinorUnits(value) = Refused
<1>1. /\ Half \in Nat /\ One \in Nat /\ One > 0 /\ Epsilon \in Nat /\ 4 * Epsilon < One
      /\ MaxSafeInteger = 2 * Half - 1
  BY MoneyFacts
<1>2. PICK no \in Nat, mo \in Nat : no = n * One /\ mo = m * One
  BY <1>1
<1> DEFINE near == roundedToInteger(scaled)
<1>3. near \in Nat /\ 2 * (near * One) <= 2 * scaled + One /\ 2 * scaled < 2 * (near * One) + One
  BY RoundedFacts
<1>4. PICK whole \in Nat, part \in Nat :
          /\ whole = value \div One /\ part = value % One
          /\ value = One * whole + part /\ part < One
  BY <1>1, Division
<1>5. CASE part = 0
  <2>1. PICK c \in Nat : c = 100 * whole
    BY <1>4
  <2>2. PICK co \in Nat : co = c * One /\ co = 100 * value
    BY <1>1, <1>4, <1>5, <2>1
  <2>3. One * n < One * (c + 1)
    BY <1>1, <2>2
  <2>4. One * c < One * (m + 1)
    BY <1>1, <2>2
  <2>5. n <= c /\ c <= m
    BY <1>1, <2>3, <2>4, Multiples
  <2>6. numberToMinorUnits(value) = c
    <3>1. value % One = 0 /\ (value \div One) * 100 = c /\ c <= MaxSafeInteger
      BY <1>1, <1>4, <1>5, <2>1, <2>5
    <3> QED
      BY <3>1 DEF numberToMinorUnits
  <2>7. ~ (100 * value > n * One /\ 100 * value < m * One /\ m = n + 1)
    <3>1. SUFFICES ASSUME 100 * value > n * One, 100 * value < m * One, m = n + 1 PROVE FALSE
      OBVIOUS
    <3>2. One * n < One * c /\ One * c < One * m
      BY <1>1, <2>2, <3>1
    <3>3. n < c /\ c < m
      BY <1>1, <3>2, Multiples
    <3> QED
      BY <3>1, <3>3
  <2> QED
    BY <2>5, <2>6, <2>7
<1>6. CASE part # 0
  <2>1. numberToMinorUnits(value)
            = IF near <= MaxSafeInteger /\ Distance(scaled, near) <= Epsilon THEN near ELSE Refused
    BY <1>4, <1>6 DEF numberToMinorUnits
  <2> HIDE DEF near
  <2>2. PICK o \in Nat : o = near * One
    BY <1>1, <1>3
  <2>3. Distance(scaled, near) = IF scaled >= o THEN scaled - o ELSE o - scaled
    BY <2>2 DEF Distance
  <2>4. n <= near
    <3>1. One * n < One * (near + 1)
      <4>1. 2 * no < 2 * o + 2 * One
        BY <1>1, <1>2, <1>3, <2>2
      <4>2. One * (near + 1) = o + One /\ One * n = no
        BY <1>1, <1>2, <1>3, <2>2
      <4> QED
        BY <1>1, <4>1, <4>2
    <3> QED
      BY <1>1, <1>3, <3>1, Multiples
  <2>5. near <= m + 1
    <3>1. One * near < One * (m + 2)
      <4>1. 2 * o <= 2 * mo + 2 * One
        BY <1>1, <1>2, <1>3, <2>2
      <4>2. One * (m + 2) = mo + 2 * One /\ One * near = o
        BY <1>1, <1>2, <1>3, <2>2
      <4> QED
        BY <1>1, <4>1, <4>2
    <3> QED
      BY <1>1, <1>3, <3>1, Multiples
  <2>6. near = m + 1 => Distance(scaled, near) > Epsilon
    <3> SUFFICES ASSUME near = m + 1 PROVE Distance(scaled, near) > Epsilon
      OBVIOUS
    <3>1. o = mo + One
      BY <1>1, <1>2, <2>2
    <3> QED
      BY <1>1, <1>2, <2>3, <3>1
  <2>7. numberToMinorUnits(value) \in {Refused} \cup (n .. m)
    <3>1. CASE near = m + 1
      <4>1. Distance(scaled, near) \in Nat
        BY <2>3
      <4> QED
        BY <1>1, <2>1, <2>6, <3>1, <4>1
    <3>2. CASE near # m + 1
      BY <1>3, <2>1, <2>4, <2>5, <3>2
    <3> QED
      BY <3>1, <3>2
  <2>8. ASSUME n = m, scaled <= n * One + Epsilon, n * One <= scaled + Epsilon
        PROVE  numberToMinorUnits(value) = n
    <3>1. near # m + 1
      <4> SUFFICES ASSUME near = m + 1 PROVE FALSE
        OBVIOUS
      <4>1. o = mo + One
        BY <1>1, <1>2, <2>2
      <4> QED
        BY <1>1, <1>2, <1>3, <2>2, <2>8, <4>1
    <3>2. near = n
      BY <1>3, <2>4, <2>5, <2>8, <3>1
    <3>3. o = no
      BY <1>2, <2>2, <3>2
    <3>4. Distance(scaled, near) <= Epsilon
      BY <1>1, <1>2, <2>3, <2>8, <3>3
    <3>5. near <= MaxSafeInteger
      BY <1>1, <2>8, <3>2
    <3> QED
      BY <2>1, <3>2, <3>4, <3>5
  <2>9. ASSUME scaled > n * One + Epsilon, m = n + 1, scaled + Epsilon < m * One
        PROVE  numberToMinorUnits(value) = Refused
    <3>1. mo = no + One
      BY <1>1, <1>2, <2>9
    <3>2. near \in {n, m}
      BY <1>3, <2>4, <2>5, <2>6, <2>7, <2>9, <3>1, <1>1, <1>2, <2>2
    <3>3. o \in {no, mo}
      BY <1>2, <2>2, <3>2
    <3>5. Distance(scaled, near) > Epsilon
      BY <1>1, <1>2, <2>3, <2>9, <3>1, <3>3
    <3>6. Distance(scaled, near) \in Nat
      BY <2>3
    <3> QED
      BY <1>1, <2>1, <3>5, <3>6
  <2> QED
    BY <2>7, <2>8, <2>9
<1> QED
  BY <1>4, <1>5, <1>6

\* An amount that is written as a JSON number is read as itself or refused, and
\* not refused where the doubles lie closely enough.
LEMMA NumberReadsBack ==
    ASSUME NEW minor \in Nat, minor < Half, NEW digits \in Nat, NEW scale \in Nat, scale > 0,
           100 * digits = minor * scale,
           NEW read, read = numberToMinorUnits(numberOf([digits |-> digits, scale |-> scale]))
    PROVE  read \in {minor, Refused} /\ (Finely(minor * One) => read = minor)
<1>1. Half \in Nat /\ Half > 0 /\ One \in Nat /\ 200 * Half <= One
  BY MoneyFacts
<1> DEFINE num == digits * One
           value == Nearest(num, scale)
           scaled == Nearest(100 * value, 1)
<1>2. read = numberToMinorUnits(value)
  BY DEF numberOf
<1>3. CASE minor = 0
  <2>1. digits = 0
    BY <1>3
  <2>2. num = 0 /\ num \div scale = 0
    BY <1>1, <2>1
  <2>3. value = 0
    <3>1. 0 < 2 * One * Half
      BY <1>1
    <3> DEFINE u == Ulp(0)
    <3>2. u \in Units /\ value \in Nat /\ \A k \in Nat : 0 <= u * k * scale => value <= u * k
      BY <2>2, <3>1, NearestFacts
    <3> HIDE DEF u, value
    <3>3. u \in Nat
      BY <3>2, MoneyFacts
    <3> QED
      BY <3>2, <3>3
  <2>4. numberToMinorUnits(0) = 0
    <3>1. 0 % One = 0 /\ (0 \div One) * 100 = 0 /\ 0 <= MaxSafeInteger
      BY <1>1, MoneyFacts
    <3> QED
      BY <3>1 DEF numberToMinorUnits
  <2> QED
    BY <1>2, <1>3, <2>3, <2>4
<1>4. CASE minor > 0
  <2>1. PICK a \in Nat : a = minor * One
    BY <1>1
  <2>2. One <= a /\ a < Half * One
    BY <1>1, <1>4, <2>1
  <2>3. a * scale = 100 * num /\ num \in Nat
    <3>1. (minor * scale) * One = (100 * digits) * One
      OBVIOUS
    <3> QED
      BY <1>1, <2>1, <3>1
  <2> DEFINE w == Ulp(a)
  <2>4. w \in Units /\ 2 * w <= One /\ \E k \in Nat : One = 2 * (w * k)
    BY <2>2, UnitFacts
  <2> HIDE DEF w
  <2>5. w \in Nat /\ w > 0
    BY <2>4, MoneyFacts
  <2>6. PICK k \in Nat : One = 2 * (w * k)
    BY <2>4
  <2>7. PICK i \in Nat : i = 2 * k * minor
    OBVIOUS
  <2>8. a = w * i
    BY <2>1, <2>5, <2>6, <2>7
  <2>9. /\ value \in Nat /\ scaled \in Nat
        /\ 100 * value < a + w /\ scaled <= a + w
        /\ 100 * value > a - w /\ scaled >= a - w
    <3>1. One <= 2 * a /\ a <= a /\ a * scale <= 100 * num /\ 100 * num <= a * scale
      BY <1>1, <2>2, <2>3
    <3> HIDE DEF num
    <3> QED
      BY <2>2, <2>3, <2>8, <3>1, ReadWithin DEF w
  <2> HIDE DEF value
  <2>10. scaled = Nearest(100 * value, 1)
    OBVIOUS
  <2> HIDE DEF scaled
  <2>11. /\ 2 * a <= 2 * scaled + One /\ 2 * scaled <= 2 * a + One
         /\ a < 100 * value + One /\ 100 * value < a + One
    BY <1>1, <2>4, <2>5, <2>9
  <2>12. /\ numberToMinorUnits(value) \in {Refused} \cup (minor .. minor)
         /\ scaled <= a + Epsilon /\ a <= scaled + Epsilon => numberToMinorUnits(value) = minor
    BY <2>1, <2>9, <2>10, <2>11, ReadingFacts
  <2>13. w <= Epsilon => scaled <= a + Epsilon /\ a <= scaled + Epsilon
    BY <2>5, <2>9, MoneyFacts
  <2> QED
    BY <1>2, <2>1, <2>12, <2>13 DEF Finely, w
<1> QED
  BY <1>3, <1>4

\* A decimal between two neighbouring amounts is read as one of them or refused.
LEMMA FractionReadsBetween ==
    ASSUME NEW minor \in Nat, minor + 1 < Half, NEW further \in 0 .. 9,
           NEW read, read = ReadWith(minor, further)
    PROVE  read \in {minor, minor + 1, Refused}
<1>1. Half \in Nat /\ Half > 0 /\ One \in Nat /\ 200 * Half <= One
  BY MoneyFacts
<1> DEFINE num == (10 * minor + further) * One
           value == Nearest(num, 1000)
           scaled == Nearest(100 * value, 1)
<1>2. read = numberToMinorUnits(value)
  BY DEF ReadWith, numberOf
<1>3. PICK a \in Nat, b \in Nat, f \in Nat : a = minor * One /\ b = (minor + 1) * One /\ f = further * One
  BY <1>1
<1>4. b = a + One /\ f <= 9 * One
  BY <1>1, <1>3
<1>5. num \in Nat /\ num = 10 * a + f
  BY <1>1, <1>3
<1>6. b < Half * One /\ (a = 0 \/ One <= 2 * a)
  <2>1. minor = 0 \/ minor >= 1
    OBVIOUS
  <2> QED
    BY <1>1, <1>3, <2>1
<1> HIDE DEF num
<1> DEFINE w == Ulp(b)
           y == Ulp(a)
<1>7. w \in Units /\ 2 * w <= One /\ \E k \in Nat : One = 2 * (w * k)
  BY <1>6, UnitFacts
<1>8. y \in Units /\ 2 * y <= One /\ \E k \in Nat : One = 2 * (y * k)
  <2>1. a < Half * One
    <3>1. PICK e \in Nat : e = Half * One
      BY <1>1
    <3> QED
      BY <1>1, <1>4, <1>6, <3>1
  <2> QED
    BY <2>1, UnitFacts
<1> HIDE DEF w, y
<1>9. w \in Nat /\ w > 0 /\ y \in Nat /\ y > 0
  BY <1>7, <1>8, MoneyFacts
<1>10. \E j \in Nat : b = w * j
  <2>1. PICK k \in Nat : One = 2 * (w * k)
    BY <1>7
  <2>2. PICK j \in Nat : j = 2 * k * (minor + 1)
    OBVIOUS
  <2>3. b = w * j
    BY <1>3, <1>9, <2>1, <2>2
  <2> QED
    BY <2>3
<1>11. \E i \in Nat : a = y * i
  <2>1. PICK k \in Nat : One = 2 * (y * k)
    BY <1>8
  <2>2. PICK i \in Nat : i = 2 * k * minor
    OBVIOUS
  <2>3. a = y * i
    BY <1>3, <1>9, <2>1, <2>2
  <2> QED
    BY <2>3
<1>12. /\ value \in Nat /\ scaled \in Nat
       /\ 100 * value < b + w /\ scaled <= b + w
       /\ 100 * value > a - y /\ scaled >= a - y
  <2>1. One <= 2 * b /\ a <= b /\ a * 1000 <= 100 * num /\ 100 * num <= b * 1000
    BY <1>1, <1>4, <1>5
  <2>2. PICK j \in Nat : b = w * j
    BY <1>10
  <2>3. PICK i \in Nat : a = y * i
    BY <1>11
  <2>4. 1000 \in Nat /\ 1000 > 0 /\ w = Ulp(b) /\ y = Ulp(a) /\ b < Half * One
    BY <1>6 DEF w, y
  <2>5. value = Nearest(num, 1000) /\ scaled = Nearest(100 * value, 1)
    OBVIOUS
  <2> HIDE DEF value, scaled
  <2>6. num \in Nat /\ (a = 0 \/ One <= 2 * a)
    BY <1>5, <1>6
  <2> QED
    BY <2>1, <2>2, <2>3, <2>4, <2>5, <2>6, ReadWithin, SMTT(60)
<1> HIDE DEF value
<1>13. scaled = Nearest(100 * value, 1)
  OBVIOUS
<1> HIDE DEF scaled
<1>14. /\ 2 * a <= 2 * scaled + One /\ 2 * scaled <= 2 * b + One
       /\ a < 100 * value + One /\ 100 * value < b + One
  BY <1>1, <1>7, <1>8, <1>9, <1>12
<1>15. numberToMinorUnits(value) \in {Refused} \cup (minor .. (minor + 1))
  BY <1>3, <1>12, <1>13, <1>14, ReadingFacts
<1> QED
  BY <1>2, <1>15

\* Half a cent is refused where the doubles lie closely enough.
LEMMA HalfACentIsRefused ==
    ASSUME NEW minor \in Nat, minor + 1 < Half, Finely(minor * One + (One \div 2)),
           NEW read, read = ReadWith(minor, 5)
    PROVE  read = Refused
<1>1. Half \in Nat /\ Half > 0 /\ One \in Nat /\ 200 * Half <= One
      /\ Epsilon \in Nat /\ 4 * Epsilon < One
  BY MoneyFacts
<1> DEFINE num == (10 * minor + 5) * One
           value == Nearest(num, 1000)
           scaled == Nearest(100 * value, 1)
<1>2. read = numberToMinorUnits(value)
  BY DEF ReadWith, numberOf
<1>3. PICK a \in Nat, b \in Nat : a = minor * One /\ b = (minor + 1) * One
  BY <1>1
<1>4. PICK h \in Nat : h = One \div 2
  BY <1>1
<1>5. PICK c \in Nat : c = a + h
  OBVIOUS
<1>6. b = a + One /\ num \in Nat /\ num = 10 * a + 5 * One
  BY <1>1, <1>3
<1>7. c < Half * One
  <2>1. b < Half * One /\ Half * One \in Nat
    BY <1>1, <1>3
  <2> QED
    BY <1>1, <1>4, <1>5, <1>6, <2>1
<1> HIDE DEF num
<1> DEFINE w == Ulp(c)
<1>8. w \in Units /\ 2 * w <= One /\ \E k \in Nat : One = 2 * (w * k)
  BY <1>7, UnitFacts
<1>9. w <= Epsilon
  BY <1>3, <1>4, <1>5 DEF Finely
<1> HIDE DEF w
<1>10. w \in Nat /\ w > 0
  BY <1>8, MoneyFacts
<1>11. PICK k \in Nat : One = 2 * (w * k)
  BY <1>8
<1>12. One = 2 * h /\ h = w * k
  <2>1. PICK p \in Nat : p = w * k
    BY <1>10
  <2> QED
    BY <1>4, <1>11, <2>1
<1>13. PICK j \in Nat : j = 2 * k * minor + k
  OBVIOUS
<1>14. c = w * j
  <2>1. a = w * (2 * k * minor)
    BY <1>3, <1>10, <1>11
  <2>2. w * j = w * (2 * k * minor) + w * k
    BY <1>10, <1>13
  <2> QED
    BY <1>5, <1>12, <2>1, <2>2
<1>15. /\ value \in Nat /\ scaled \in Nat
       /\ 100 * value < c + w /\ scaled <= c + w
       /\ 100 * value > c - w /\ scaled >= c - w
  <2>1. One <= 2 * c /\ c <= c /\ c * 1000 <= 100 * num /\ 100 * num <= c * 1000
    BY <1>1, <1>5, <1>6, <1>12
  <2>2. value = Nearest(num, 1000) /\ scaled = Nearest(100 * value, 1) /\ w = Ulp(c)
    BY DEF w
  <2> HIDE DEF value, scaled
  <2>3. 1000 \in Nat /\ 1000 > 0
    OBVIOUS
  <2> QED
    BY <1>6, <1>7, <1>14, <2>1, <2>2, <2>3, ReadWithin, SMTT(60)
<1> HIDE DEF value
<1>16. scaled = Nearest(100 * value, 1)
  OBVIOUS
<1> HIDE DEF scaled
<1>17. /\ 2 * a <= 2 * scaled + One /\ 2 * scaled <= 2 * b + One
       /\ a < 100 * value + One /\ 100 * value < b + One
       /\ scaled > a + Epsilon /\ 100 * value > a
       /\ scaled + Epsilon < b /\ 100 * value < b
  BY <1>1, <1>5, <1>6, <1>9, <1>10, <1>12, <1>15
<1>18. numberToMinorUnits(value) = Refused
  BY <1>3, <1>15, <1>16, <1>17, ReadingFacts
<1> QED
  BY <1>2, <1>18

\* For every amount: its text is read as itself, or refused beyond the safe
\* integers; the double that it is written as is read as itself or refused, and
\* as itself where the doubles lie finely (below 671088.64); a fraction of a cent
\* is read as a neighbour or refused, half a cent refused; and what is written
\* for the shop is read back as the amount (money.ts).
THEOREM AmountsAreRead ==
    ASSUME NEW minor \in Nat
    PROVE  AmountIsRead(minor)
<1>1. /\ minor % 10 = 0 => minor = 10 * (minor \div 10) /\ minor \div 10 \in Nat
      /\ minor % 100 = 0 => minor = 100 * (minor \div 100) /\ minor \div 100 \in Nat
  OBVIOUS
<1>2. TextIsRead(minor)
  <2> SUFFICES ASSUME NEW decimal \in Spellings(minor)
               PROVE  decimalStringToMinorUnits(decimal) = IF minor > MaxSafeInteger THEN Refused ELSE minor
    BY DEF TextIsRead
  <2>1. CASE decimal = [digits |-> minor, scale |-> 100]
    <3>1. (minor \div 100) * 100 + (minor % 100) * (100 \div 100) = minor
      OBVIOUS
    <3> QED
      BY <2>1, <3>1 DEF decimalStringToMinorUnits
  <2>2. CASE minor % 10 = 0 /\ decimal = [digits |-> minor \div 10, scale |-> 10]
    <3>1. PICK digits \in Nat : digits = minor \div 10 /\ minor = 10 * digits
      BY <1>1, <2>2
    <3>2. (digits \div 10) * 100 + (digits % 10) * (100 \div 10) = minor
      BY <3>1
    <3> QED
      BY <2>2, <3>1, <3>2 DEF decimalStringToMinorUnits
  <2>3. CASE minor % 100 = 0 /\ decimal = [digits |-> minor \div 100, scale |-> 1]
    <3>1. PICK digits \in Nat : digits = minor \div 100 /\ minor = 100 * digits
      BY <1>1, <2>3
    <3>2. (digits \div 1) * 100 + (digits % 1) * (100 \div 1) = minor
      BY <3>1
    <3> QED
      BY <2>3, <3>1, <3>2 DEF decimalStringToMinorUnits
  <2> QED
    BY <2>1, <2>2, <2>3 DEF Spellings
<1>3. ASSUME minor < Half PROVE NumberIsRead(minor)
  <2> SUFFICES ASSUME NEW decimal \in Spellings(minor)
               PROVE  /\ numberToMinorUnits(numberOf(decimal)) \in {minor, Refused}
                      /\ Finely(minor * One) => numberToMinorUnits(numberOf(decimal)) = minor
    BY DEF NumberIsRead
  <2>1. PICK digits \in Nat, scale \in Nat :
            /\ scale > 0 /\ 100 * digits = minor * scale
            /\ decimal = [digits |-> digits, scale |-> scale]
    BY <1>1 DEF Spellings
  <2> QED
    BY <1>3, <2>1, NumberReadsBack
<1>4. ASSUME minor + 1 < Half PROVE FractionIsRead(minor)
  <2>1. ASSUME NEW further \in 0 .. 9 PROVE ReadWith(minor, further) \in {minor, minor + 1, Refused}
    BY <1>4, FractionReadsBetween
  <2>2. Finely(minor * One + (One \div 2)) => ReadWith(minor, 5) = Refused
    BY <1>4, HalfACentIsRefused
  <2> QED
    BY <2>1, <2>2 DEF FractionIsRead
<1>5. WrittenIsRead(minor)
  <2>1. CASE minor > MaxSafeInteger
    <3>1. fiatMinorToBitrefillMajor(minor) = Refused /\ ~ (minor < Half)
      BY <2>1, MoneyFacts DEF fiatMinorToBitrefillMajor
    <3> QED
      BY <3>1 DEF WrittenIsRead
  <2>2. CASE minor <= MaxSafeInteger /\ minor % 100 = 0
    <3>1. PICK whole \in Nat : whole = minor \div 100 /\ minor = 100 * whole
      BY <1>1, <2>2
    <3>2. PICK major \in Nat : major = whole * One
      BY MoneyFacts
    <3>3. fiatMinorToBitrefillMajor(minor) = major
      BY <2>2, <3>1, <3>2 DEF fiatMinorToBitrefillMajor
    <3>4. major % One = 0 /\ major \div One = whole
      <4>1. One \in Nat /\ One > 0
        BY MoneyFacts
      <4>2. /\ major \div One \in Nat /\ major % One \in Nat
            /\ major = One * (major \div One) + (major % One) /\ major % One < One
        BY <4>1, Division
      <4>3. PICK q \in Nat, rest \in Nat : q = major \div One /\ rest = major % One
        BY <4>2
      <4>4. One * whole < One * (q + 1) /\ One * q < One * (whole + 1)
        BY <3>2, <4>1, <4>2, <4>3
      <4>5. q = whole
        BY <4>1, <4>4, Multiples
      <4> QED
        BY <3>2, <4>1, <4>2, <4>3, <4>5
    <3>5. numberToMinorUnits(major) = minor
      BY <2>2, <3>1, <3>4 DEF numberToMinorUnits
    <3>6. major # Refused
      BY MoneyFacts
    <3> QED
      BY <3>3, <3>5, <3>6 DEF WrittenIsRead
  <2>3. CASE minor <= MaxSafeInteger /\ minor % 100 # 0
    <3> DEFINE major == numberOf(fiatMinorToExactDecimalString(minor))
    <3>1. fiatMinorToBitrefillMajor(minor) = IF numberToMinorUnits(major) = minor THEN major ELSE Refused
      BY <2>3 DEF fiatMinorToBitrefillMajor
    <3>2. minor < Half /\ Finely(minor * One) => numberToMinorUnits(major) = minor /\ major # Refused
      <4> SUFFICES ASSUME minor < Half, Finely(minor * One)
                   PROVE  numberToMinorUnits(major) = minor /\ major # Refused
        OBVIOUS
      <4>1. numberToMinorUnits(major) = minor
        <5>1. fiatMinorToExactDecimalString(minor) \in Spellings(minor)
          BY DEF fiatMinorToExactDecimalString, Spellings
        <5> QED
          BY <1>3, <5>1 DEF NumberIsRead
      <4>2. major \in Nat
        <5>1. major = Nearest(minor * One, 100)
          BY DEF numberOf, fiatMinorToExactDecimalString
        <5>2. PICK num \in Nat : num = minor * One
          BY MoneyFacts
        <5>3. num \div 100 < 2 * One * Half
          <6>1. PICK e \in Nat : e = Half * One
            BY MoneyFacts
          <6>2. num < e
            BY <5>2, <6>1, MoneyFacts
          <6> QED
            BY <6>1, <6>2, MoneyFacts
        <5> QED
          BY <5>1, <5>2, <5>3, NearestFacts
      <4> QED
        BY <4>1, <4>2, MoneyFacts
    <3> HIDE DEF major
    <3> QED
      BY <3>1, <3>2 DEF WrittenIsRead
  <2>4. MaxSafeInteger \in Nat
    BY MoneyFacts
  <2> QED
    BY <2>1, <2>2, <2>3, <2>4
<1> QED
  BY <1>2, <1>3, <1>4, <1>5 DEF AmountIsRead

-----------------------------------------------------------------------------
(* Theorems.                                                               *)

\* The types of both machines: every row names what exists, and no chain is
\* longer than MAX_PREPAYMENT_STEPS lets prepare make it.
THEOREM BitrefillTypeCorrect ==
    ASSUME Chain!PrepaymentAssumption
    PROVE  BitrefillSpec => []BitrefillTypeOK
<1>1. Chain!Spec => []Chain!TypeOK
  BY Chain!ChainTypeCorrect
<1>2. Spec => []TypeOK
  BY InvoiceTypeCorrect
<1> QED
  BY <1>1, <1>2, ChainRuns, InvoiceRuns, PTL DEF BitrefillTypeOK

\* Each step that left for the provider is on record, once: prepare writes the
\* step before it submits the form, so a crash loses no submission.
THEOREM BitrefillSubmittedOnRecord ==
    ASSUME Chain!PrepaymentAssumption
    PROVE  BitrefillSpec => []SubmittedIsOnRecord
<1>1. Chain!Spec => []Chain!SubmittedIsOnRecord
  BY Chain!SubmittedOnRecord
<1> QED
  BY <1>1, ChainRuns, PTL DEF SubmittedIsOnRecord

\* No binding of a slot is replaced by another that reaches the provider unless
\* an operator withdrew it (invalidate).
THEOREM BitrefillSecondChainWithdrawn ==
    ASSUME Chain!PrepaymentAssumption
    PROVE  BitrefillSpec => []SecondChainNeedsAnOperator
<1>1. Chain!Spec => []Chain!SecondChainNeedsAnOperator
  BY Chain!SecondChainWithdrawn
<1> QED
  BY <1>1, ChainRuns, PTL DEF SecondChainNeedsAnOperator

\* A READY binding has its identifier on disk: the secret is written before the
\* row becomes READY.
THEOREM BitrefillReadyLoads ==
    ASSUME Chain!PrepaymentAssumption
    PROVE  BitrefillSpec => []ReadyHasItsSecret
<1>1. Chain!Spec => []Chain!ReadyHasItsSecret
  BY Chain!ReadyLoads
<1> QED
  BY <1>1, ChainRuns, PTL DEF ReadyHasItsSecret

\* A PREPARING binding is held by a call that still runs, unless its process
\* died in the chain or its catch could not write the row: nothing else leaves a
\* slot in PREPARING to the operator.
THEOREM BitrefillSlotNotAbandoned ==
    ASSUME Chain!PrepaymentAssumption
    PROVE  BitrefillSpec => []SlotIsNotAbandoned
<1>1. Chain!Spec => []Chain!SlotIsNotAbandoned
  BY Chain!SlotNotAbandoned
<1> QED
  BY <1>1, ChainRuns, PTL DEF SlotIsNotAbandoned

\* The question of a behaviour is one of those asked, and stays the same.
Asked ==
    subject.kind \in {"invoice", "chain"} \/ AsksPurchase \/ AsksAmount \/ AsksForm \/ AsksInvoice

LEMMA AskedOnce == BitrefillSpec => []Asked
<1>1. BitrefillInit => Asked
  BY DEF BitrefillInit, Asked
<1>2. ASSUME Asked, [BitrefillNext]_<<subject, vars, chainVars>> PROVE Asked'
  <2>1. subject' = subject
    BY <1>2 DEF BitrefillNext
  <2>2. (AsksPurchase <=> AsksPurchase') /\ (AsksAmount <=> AsksAmount')
        /\ (AsksForm <=> AsksForm') /\ (AsksInvoice <=> AsksInvoice')
    BY <2>1 DEF AsksPurchase, AsksAmount, AsksForm, AsksInvoice
  <2> QED
    BY <1>2, <2>1, <2>2 DEF Asked
<1> QED
  BY <1>1, <1>2, PTL DEF BitrefillSpec

\* Each question is of its kind.
LEMMA KindsApart ==
    ASSUME Asked
    PROVE  /\ subject.kind = "purchase" => AsksPurchase
           /\ subject.kind = "amount" => AsksAmount
           /\ subject.kind = "form" => AsksForm
           /\ subject.kind = "invoice words" => AsksInvoice
<1>1. AsksPurchase => subject.kind = "purchase"
  <2>1. ASSUME AsksPurchase PROVE \E before, now : subject = [kind |-> "purchase", before |-> before,
                                                            now |-> now, faceValue |-> 5]
    BY <2>1, Zenon DEF AsksPurchase
  <2> QED
    BY <2>1
<1>2. AsksAmount => subject.kind = "amount"
  BY DEF AsksAmount
<1>3. AsksForm => subject.kind = "form"
  <2>1. ASSUME AsksForm PROVE \E fields, step : subject = [kind |-> "form", fields |-> fields, step |-> step]
    BY <2>1, Zenon DEF AsksForm
  <2> QED
    BY <2>1
<1>4. AsksInvoice => subject.kind = "invoice words"
  <2> SUFFICES ASSUME AsksInvoice PROVE subject.kind = "invoice words"
    OBVIOUS
  <2>1. PICK invoice : subject = [kind |-> "invoice words", invoice |-> invoice]
    BY Zenon DEF AsksInvoice
  <2> QED
    BY <2>1
<1> QED
  BY <1>1, <1>2, <1>3, <1>4 DEF Asked

\* The packages of the catalogue have identifiers (parsePackages).
LEMMA PackagesAreNamed ==
    ASSUME AbsentAssumption, NEW product, NEW packages \in PackageLists, product.packages = packages
    PROVE  \A i \in DOMAIN product.packages : product.packages[i].id # Absent
<1>1. \A p \in PackageRecords : p.id # Absent
  BY DEF PackageRecords, AbsentAssumption
<1>2. CASE packages = <<>>
  BY <1>2
<1>3. CASE \E p \in PackageRecords : packages = <<p>>
  BY <1>1, <1>3
<1>4. CASE \E p, q \in PackageRecords : packages = <<p, q>>
  BY <1>1, <1>4
<1> QED
  BY <1>2, <1>3, <1>4 DEF PackageLists

\* What is bought is what was authorized, however the catalogue changed between
\* the two times the product was fetched, and no amount turns into another one:
\* its text and its number are read as it is or refused, and what is written is
\* read back (revalidateBeforeExecuting, money.ts).
THEOREM BitrefillBoughtAsAuthorized ==
    ASSUME AbsentAssumption
    PROVE  BitrefillSpec => []BoughtAsAuthorized
<1>1. ASSUME Asked, subject.kind = "amount" PROVE AmountIsRead(subject.minor)
  <2>1. subject.minor \in Nat
    BY <1>1, KindsApart DEF AsksAmount
  <2> QED
    BY <2>1, AmountsAreRead
<1>2. ASSUME Asked, subject.kind = "purchase"
      PROVE  \A i \in DOMAIN subject.before.packages : subject.before.packages[i].id # Absent
  <2>1. AsksPurchase
    BY <1>2, KindsApart
  <2>2. \E packages \in PackageLists : subject.before.packages = packages
    <3>1. CASE \E before \in Catalogue, now \in Catalogue :
              subject = [kind |-> "purchase", before |-> before, now |-> now, faceValue |-> 5]
      <4>1. PICK before \in Catalogue : subject.before = before
        BY <3>1
      <4>2. PICK packages \in PackageLists : \E range \in Ranges : before = Catalogued(packages, range)
        BY <4>1 DEF Catalogue
      <4> QED
        BY <4>1, <4>2 DEF Catalogued
    <3>2. CASE \E before \in {Catalogued(<<[id |-> "a", value |-> 5]>>, Absent)}, now \in Conditions :
              subject = [kind |-> "purchase", before |-> before, now |-> now, faceValue |-> 5]
      <4>1. PICK packages : packages = <<[id |-> "a", value |-> 5]>>
        OBVIOUS
      <4>2. PICK before : before = Catalogued(packages, Absent)
        OBVIOUS
      <4>3. \E now : subject = [kind |-> "purchase", before |-> before, now |-> now, faceValue |-> 5]
        BY <3>2, <4>1, <4>2, Zenon
      <4>4. subject.before.packages = packages
        BY <4>2, <4>3 DEF Catalogued
      <4>5. packages \in PackageLists
        <5>1. PICK p \in PackageRecords : p = [id |-> "a", value |-> 5]
          BY DEF PackageRecords
        <5>2. packages = <<p>>
          BY <4>1, <5>1
        <5> QED
          BY <5>2 DEF PackageLists
      <4> QED
        BY <4>4, <4>5
    <3> QED
      BY <2>1, <3>1, <3>2 DEF AsksPurchase
  <2> QED
    BY <2>2, PackagesAreNamed
<1>3. ASSUME Asked, subject.kind = "purchase",
             NEW bound, bound = Product!Resolved(subject.before, subject.faceValue),
             NEW current, current = Product!Revalidated(subject.before, bound, subject.now),
             bound # Refused, current # Refused
      PROVE  /\ Sold(Product!RequestedOf(current), subject.now) = {subject.faceValue}
             /\ ~ Product!humanActionRequired(subject.now)
             /\ subject.now.currency = subject.before.currency
             /\ Product!RevalidatedGiftCard(subject.before, bound, subject.now) # Refused
                    => subject.now.type # "esim"
  <2>1. Product!RevalidatedGiftCard(subject.before, bound, subject.now) # Refused
            => subject.now.type # "esim"
    BY DEF Product!RevalidatedGiftCard, Product!assertOrdinaryGiftCardProduct
  <2> QED
    BY <1>2, <1>3, <2>1, BoughtAtTheValue
<1>4. Asked => BoughtAsAuthorized
  BY <1>1, <1>3 DEF BoughtAsAuthorized
<1> QED
  BY <1>4, AskedOnce, PTL

\* Nothing leaves that was left to a human, and a chain is begun only with a
\* form that can be filled without one (inspectFieldSupport before prepare).
THEOREM BitrefillFormsLeft ==
    ASSUME Chain!PrepaymentAssumption, AbsentAssumption
    PROVE  BitrefillSpec => []FormsAreLeftToAHuman
<1>1. Chain!Spec => []Chain!NothingLeavesForAHuman
  BY Chain!LeftToAHuman
<1>2. ASSUME Asked, subject.kind = "form"
      PROVE  Chain!inspectFieldSupport(subject.fields, subject.step) = "supported"
                 <=> Chain!satisfyPrepaymentFields(subject.fields, "profile", [length |-> 5], subject.step)
                         = "supported"
  <2>1. PICK first \in Fields, second \in Fields : subject.fields = <<first, second>>
    BY <1>2, KindsApart DEF AsksForm
  <2>2. \A field \in Chain!ToSet(subject.fields) : field \in Fields
    <3>1. \A i \in DOMAIN <<first, second>> : <<first, second>>[i] \in Fields
      OBVIOUS
    <3> QED
      BY <2>1, <3>1 DEF Chain!ToSet
  <2>3. \A field \in Chain!ToSet(subject.fields) : Chain!Fits(field, [length |-> 5])
    BY <2>2 DEF Fields, Chain!Fits
  <2>4. "profile" # Absent
    BY DEF AbsentAssumption
  <2> QED
    BY <2>3, <2>4, InspectionForesees
<1>3. Asked /\ Chain!NothingLeavesForAHuman => FormsAreLeftToAHuman
  BY <1>2 DEF FormsAreLeftToAHuman
<1> QED
  BY <1>1, <1>3, ChainRuns, AskedOnce, PTL

\* An invoice is accepted when it is created just when a reconciliation would
\* find it unpaid.
THEOREM BitrefillAcceptedUnpaid == BitrefillSpec => []AcceptedIsReadUnpaid
<1>1. ASSUME Asked, subject.kind = "invoice words" PROVE subject.invoice.id = "id"
  <2>1. AsksInvoice
    BY <1>1, KindsApart
  <2>2. PICK status, payment, method, words, bought : subject =
            [kind |-> "invoice words", invoice |-> InWords(status, payment, method, words, bought)]
    BY <2>1, Zenon DEF AsksInvoice
  <2>3. InWords(status, payment, method, words, bought).id = "id"
    BY DEF InWords
  <2> QED
    BY <2>2, <2>3
<1>2. Asked => AcceptedIsReadUnpaid
  BY <1>1, AcceptedJustWhenUnpaid DEF AcceptedIsReadUnpaid
<1> QED
  BY <1>2, AskedOnce, PTL
=============================================================================
