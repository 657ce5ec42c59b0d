---------------------------- MODULE AccountProofs ----------------------------
(* Proofs about the keystores, Common and the transaction classes of          *)
(* MCAccounts, for any seeds, passwords, parameters, lists of hardforks,      *)
(* transaction data, bytes and limits.                                        *)
EXTENDS MCAccounts, TLAPS, SequenceTheorems, FilterProofs

-----------------------------------------------------------------------------
(* Keystores.                                                                 *)

(* An encryption as it was asked for: account.encrypt() hands over a copy of  *)
(* the seed of its account.                                                   *)
Asked == [by : {"caller", "account"}, source : {"array", "copy"}, seed : Seeds,
          password : Passwords, params : Params]

AskedOK(j) ==
    /\ j \in Asked
    /\ Ks!ValidateArgon2idParams(j.params)
    /\ j.by = "account" => j.source = "copy" /\ account # None /\ j.seed = account.address

(* A keystore has the key of the password it was asked for; one that an       *)
(* account asked for holds the account's seed under the account's address.    *)
Stored == [version : {1}, address : Seeds, kdf : {"argon2id"}, params : Params,
           key : {Ks!DerivedKey(p, q) : p \in Passwords, q \in Params}, plain : Seeds, asked : Asked]

StoredOK(k) ==
    /\ k \in Stored
    /\ AskedOK(k.asked)
    /\ k.params = k.asked.params
    /\ k.key = Ks!DerivedKey(k.asked.password, k.params)
    /\ k.asked.by = "account" => k.address = k.asked.seed /\ k.plain = k.asked.seed

(* What was opened, with the account it has to be if an account asked.        *)
OpenedOK ==
    opened # None =>
        /\ opened.asked.by = "account" => account # None /\ opened.asked.seed = account.address

(* The inductive invariant.                                                   *)
KeystoreInv ==
    /\ account # None => account \in [address : Seeds, seed : Seeds, form : {"array", "hex"}]
                         /\ account.seed = account.address
    /\ job # None => AskedOK(job)
    /\ keystores \in Seq(Stored)
    /\ \A n \in DOMAIN keystores : StoredOK(keystores[n])
    /\ OpenedOK
    /\ Ks!KeystoresOpen

(* An account, once made, stays: what was asked for by it remains so.         *)
LEMMA AskedStays ==
    ASSUME account # None => account' = account
    PROVE  \A j : AskedOK(j) => AskedOK(j)'
BY DEF AskedOK

(* Nor does what is stored change.                                            *)
LEMMA StoredStays ==
    ASSUME account # None => account' = account
    PROVE  \A k : StoredOK(k) => StoredOK(k)'
BY AskedStays DEF StoredOK

(* The constructor of a record that an account asked for.                     *)
LEMMA MakesAsked ==
    ASSUME NEW p \in Passwords, NEW q \in Params, NEW s \in Seeds,
           NEW by \in {"caller", "account"}, NEW source \in {"array", "copy"}
    PROVE  [by |-> by, source |-> source, seed |-> s, password |-> p, params |-> q] \in Asked
BY DEF Asked

(* encrypt(), by the caller or by the account, asks for what it may.          *)
LEMMA EncryptAsks ==
    ASSUME KeystoreInv, NEW p \in Passwords, NEW q \in Params,
           Ks!Encrypt(p, q) \/ Ks!AccountEncrypt(p, q)
    PROVE  job' # None => AskedOK(job')
<1>1. CASE Ks!Encrypt(p, q)
  <2>1. /\ job' = [by |-> "caller", source |-> "array", seed |-> array, password |-> p, params |-> q]
        /\ array \in Seeds /\ Ks!ValidateArgon2idParams(q)
    BY <1>1 DEF Ks!Encrypt, Ks!EncryptStarts, Ks!HoldsSeed
  <2>2. job' \in Asked /\ job'.by = "caller" /\ job'.params = q
    BY <2>1, MakesAsked
  <2> QED BY <2>1, <2>2 DEF AskedOK
<1>2. CASE Ks!AccountEncrypt(p, q)
  <2>1. /\ job' = [by |-> "account", source |-> "copy", seed |-> account.seed, password |-> p, params |-> q]
        /\ account # None /\ account.seed \in Seeds /\ Ks!ValidateArgon2idParams(q)
    BY <1>2 DEF Ks!AccountEncrypt, Ks!EncryptStarts, Ks!HoldsSeed
  <2>2. /\ job' \in Asked /\ job'.params = q /\ job'.source = "copy" /\ job'.seed = account.seed
    BY <2>1, MakesAsked
  <2>3. account.seed = account.address
    BY <2>1 DEF KeystoreInv
  <2> QED BY <2>1, <2>2, <2>3 DEF AskedOK
<1> QED BY <1>1, <1>2

(* What encrypt() stores is in order.                                         *)
LEMMA EncryptStores ==
    ASSUME KeystoreInv, Ks!EncryptEnds
    PROVE  /\ keystores' \in Seq(Stored)
           /\ \A n \in DOMAIN keystores' : StoredOK(keystores'[n])
<1>1. keystores \in Seq(Stored) /\ \A n \in DOMAIN keystores : StoredOK(keystores[n])
  BY DEF KeystoreInv
<1>2. AskedOK(job)
  BY DEF KeystoreInv, Ks!EncryptEnds
<1> DEFINE now == IF job.source = "array" THEN array ELSE job.seed
           record(t) == [version |-> 1, address |-> now, kdf |-> "argon2id", params |-> job.params,
                         key |-> Ks!DerivedKey(job.password, job.params), plain |-> t, asked |-> job]
<1>3. \/ now \in Seeds /\ \E t \in {job.seed, now} : keystores' = Append(keystores, record(t))
      \/ keystores' = keystores
  BY DEF Ks!EncryptEnds, Ks!HoldsSeed
<1>4. ASSUME now \in Seeds, NEW t \in {job.seed, now}
      PROVE  StoredOK(record(t))
  <2>1. job \in Asked /\ job.seed \in Seeds /\ job.password \in Passwords /\ job.params \in Params
    BY <1>2 DEF AskedOK, Asked
  <2>2. job.by = "account" => now = job.seed
    BY <1>2 DEF AskedOK
  <2> HIDE DEF now
  <2>3. t \in Seeds
    BY <1>4, <2>1
  <2>4. record(t) \in Stored
    BY <1>4, <2>1, <2>3 DEF Stored
  <2> QED BY <1>2, <1>4, <2>2, <2>4 DEF StoredOK
<1> HIDE DEF now, record
<1>5. ASSUME now \in Seeds, NEW t \in {job.seed, now}, keystores' = Append(keystores, record(t))
      PROVE  /\ keystores' \in Seq(Stored)
             /\ \A n \in DOMAIN keystores' : StoredOK(keystores'[n])
  <2>1. StoredOK(record(t)) /\ record(t) \in Stored
    BY <1>4, <1>5 DEF StoredOK
  <2> QED BY <1>1, <1>5, <2>1
<1> QED BY <1>1, <1>3, <1>5

(* An edited keystore keeps its secret, and what was asked for.               *)
LEMMA EditedKeeps ==
    ASSUME NEW k \in Stored, NEW e \in Ks!Edited(k)
    PROVE  e.plain = k.plain /\ e.asked = k.asked
BY DEF Ks!Edited, Stored

(* decrypt() opens a keystore in order with its password, and only so, and an *)
(* edited one to no account it does not name.                                 *)
LEMMA DecryptOpens ==
    ASSUME NEW k, StoredOK(k), NEW e \in Ks!Edited(k), NEW p
    PROVE  /\ Ks!Decrypted(e, p) # None =>
                 /\ Ks!Decrypted(e, p) = e.address
                 /\ e.asked.by = "caller" \/ Ks!Decrypted(e, p) = e.asked.seed
           /\ e = k /\ e.asked.by = "account" =>
                 Ks!Decrypted(e, p) = IF Ks!PasswordBytes(p) = Ks!PasswordBytes(e.asked.password)
                                      THEN e.asked.seed ELSE None
<1>1. k \in Stored /\ e.plain = k.plain /\ e.asked = k.asked /\ k.asked.by \in {"caller", "account"}
  BY EditedKeeps DEF StoredOK, Stored, Asked
<1>2. ASSUME Ks!Decrypted(e, p) # None
      PROVE  /\ Ks!Decrypted(e, p) = e.address
             /\ e.asked.by = "caller" \/ Ks!Decrypted(e, p) = e.asked.seed
  BY <1>1, <1>2 DEF Ks!Decrypted, StoredOK
<1>3. ASSUME e = k, e.asked.by = "account"
      PROVE  Ks!Decrypted(e, p) = IF Ks!PasswordBytes(p) = Ks!PasswordBytes(e.asked.password)
                                  THEN e.asked.seed ELSE None
  <2>1. /\ k.version = 1 /\ k.kdf = "argon2id" /\ Ks!ValidateArgon2idParams(k.params)
        /\ k.plain = k.address /\ k.plain = k.asked.seed
        /\ k.key = Ks!DerivedKey(k.asked.password, k.params)
    BY <1>1, <1>3 DEF StoredOK, Stored, AskedOK
  <2>2. Ks!DerivedKey(p, k.params) = k.key <=> Ks!PasswordBytes(p) = Ks!PasswordBytes(k.asked.password)
    BY <2>1 DEF Ks!DerivedKey
  <2> QED BY <1>3, <2>1, <2>2 DEF Ks!Decrypted
<1> QED BY <1>2, <1>3

(* decrypt() of a keystore, edited or not.                                    *)
LEMMA DecryptStep ==
    ASSUME KeystoreInv, NEW n \in DOMAIN keystores, NEW p, Ks!Decrypt(n, p)
    PROVE  OpenedOK' /\ Ks!KeystoresOpen'
<1>1. StoredOK(keystores[n])
  BY DEF KeystoreInv
<1>2. PICK e \in Ks!Edited(keystores[n]) :
        opened' = [asked |-> e.asked, edited |-> e # keystores[n], password |-> p,
                   label |-> e.address, account |-> Ks!Decrypted(e, p)]
  BY DEF Ks!Decrypt
<1>3. e.asked = keystores[n].asked
  BY <1>1, EditedKeeps DEF StoredOK
<1>4. account' = account
  BY DEF Ks!Decrypt
<1>5. e.asked.by = "account" => account # None /\ e.asked.seed = account.address
  BY <1>1, <1>3 DEF StoredOK, AskedOK
<1>6. /\ opened'.asked = e.asked /\ opened'.edited = (e # keystores[n])
      /\ opened'.password = p /\ opened'.label = e.address /\ opened'.account = Ks!Decrypted(e, p)
  BY <1>2
<1>7. OpenedOK'
  BY <1>4, <1>5, <1>6 DEF OpenedOK
<1>8. /\ Ks!Decrypted(e, p) # None =>
            /\ Ks!Decrypted(e, p) = e.address
            /\ e.asked.by = "caller" \/ Ks!Decrypted(e, p) = e.asked.seed
      /\ e = keystores[n] /\ e.asked.by = "account" =>
            Ks!Decrypted(e, p) = IF Ks!PasswordBytes(p) = Ks!PasswordBytes(e.asked.password)
                                 THEN e.asked.seed ELSE None
  BY <1>1, DecryptOpens
<1>9. Ks!KeystoresOpen'
  BY <1>4, <1>5, <1>6, <1>8 DEF Ks!KeystoresOpen
<1> QED BY <1>7, <1>9

(* Every step of a keystore's life keeps the invariant.                       *)
LEMMA KeystoreStep == KeystoreInv /\ [Ks!Next]_keystoreVars => KeystoreInv'
<1> SUFFICES ASSUME KeystoreInv, [Ks!Next]_keystoreVars PROVE KeystoreInv'
  OBVIOUS
<1> DEFINE Kept == /\ account # None => account' = account
                   /\ account' # None =>
                        /\ account' \in [address : Seeds, seed : Seeds, form : {"array", "hex"}]
                        /\ account'.seed = account'.address
<1>1. Kept
  <2>1. account' = account \/ \E form \in {"array", "hex"} : Ks!SeedToAccount(form)
    BY DEF Ks!Next, Ks!Overwrite, Ks!Sign, Ks!EncryptEnds, Ks!Encrypt, Ks!AccountEncrypt,
           Ks!EncryptStarts, Ks!Decrypt, keystoreVars
  <2>2. ASSUME NEW form \in {"array", "hex"}, Ks!SeedToAccount(form)
        PROVE  Kept
    <3>1. account = None /\ array \in Seeds /\ account' = [address |-> array, seed |-> array, form |-> form]
      BY <2>2 DEF Ks!SeedToAccount, Ks!HoldsSeed
    <3> QED BY <3>1
  <2> QED BY <2>1, <2>2 DEF KeystoreInv
<1>2. (\A j : AskedOK(j) => AskedOK(j)') /\ (\A k : StoredOK(k) => StoredOK(k)')
  BY <1>1, AskedStays, StoredStays
<1>3. PICK j : j = job'
  OBVIOUS
<1>4. PICK ks : ks = keystores'
  OBVIOUS
<1>5. j # None => AskedOK(j)
  <2>1. \/ job' = job \/ job' = None
        \/ \E p \in Passwords, q \in Params : Ks!Encrypt(p, q) \/ Ks!AccountEncrypt(p, q)
    BY DEF Ks!Next, Ks!Overwrite, Ks!Sign, Ks!EncryptEnds, Ks!SeedToAccount, Ks!Decrypt, keystoreVars
  <2> QED BY <1>3, <2>1, EncryptAsks DEF KeystoreInv
<1>6. ks \in Seq(Stored) /\ \A n \in DOMAIN ks : StoredOK(ks[n])
  <2>1. keystores' = keystores \/ Ks!EncryptEnds
    BY DEF Ks!Next, Ks!Overwrite, Ks!Sign, Ks!Encrypt, Ks!AccountEncrypt, Ks!EncryptStarts,
           Ks!SeedToAccount, Ks!Decrypt, keystoreVars
  <2> QED BY <1>4, <2>1, EncryptStores DEF KeystoreInv
<1>7. OpenedOK' /\ Ks!KeystoresOpen'
  <2>1. opened' = opened \/ \E n \in DOMAIN keystores, p \in Passwords : Ks!Decrypt(n, p)
    BY DEF Ks!Next, Ks!Overwrite, Ks!Sign, Ks!Encrypt, Ks!AccountEncrypt, Ks!EncryptStarts,
           Ks!EncryptEnds, Ks!SeedToAccount, keystoreVars
  <2>2. ASSUME opened' = opened PROVE OpenedOK' /\ Ks!KeystoresOpen'
    <3>1. opened # None /\ opened.asked.by = "account" => account' = account /\ account # None
      BY <1>1 DEF KeystoreInv, OpenedOK
    <3> QED BY <2>2, <3>1 DEF KeystoreInv, OpenedOK, Ks!KeystoresOpen
  <2> QED BY <2>1, <2>2, DecryptStep
<1>8. job' # None => AskedOK(job)'
  <2>1. j # None => AskedOK(j)'
    BY <1>2, <1>5
  <2> QED BY <1>3, <2>1 DEF AskedOK
<1>9. \A n \in DOMAIN keystores' : StoredOK(keystores[n])'
  <2>1. \A n \in DOMAIN ks : StoredOK(ks[n])'
    BY <1>2, <1>6
  <2>2. ASSUME NEW n \in DOMAIN keystores' PROVE StoredOK(keystores[n])'
    <3>1. PICK k : k = keystores'[n] /\ StoredOK(k)'
      BY <1>4, <2>1
    <3> QED BY <3>1 DEF StoredOK, AskedOK
  <2> QED BY <2>2
<1> QED BY <1>1, <1>4, <1>6, <1>7, <1>8, <1>9 DEF KeystoreInv

-----------------------------------------------------------------------------
(* Numbers as bytes.                                                          *)

(* The instance's constants are those of a TypedTransaction.                  *)
LEMMA ConstantsAreOK == Tt!ConstantsOK
BY InstancesAssumption

(* A byte has more than one value.                                            *)
LEMMA BaseOK == Base \in Nat /\ Base > 1
BY ConstantsAreOK DEF Tt!ConstantsOK

(* What the prefixes of some bytes are worth.                                 *)
Worth(f, bs, m) == f = [k \in 0..m |-> IF k = 0 THEN 0 ELSE Base * f[k - 1] + bs[k]]

(* Any bytes are worth something.                                             *)
LEMMA WorthExists ==
    ASSUME NEW bs, NEW m \in Nat
    PROVE  \E f : Worth(f, bs, m)
<1> DEFINE P == {n \in Nat : \E f : Worth(f, bs, n)}
<1>1. 0 \in P
  <2> DEFINE f == [k \in 0..0 |-> 0]
  <2>1. Worth(f, bs, 0)
    BY DEF Worth
  <2> QED BY <2>1
<1>2. ASSUME NEW n \in Nat, n \in P PROVE n + 1 \in P
  <2>1. PICK f : Worth(f, bs, n)
    BY <1>2
  <2> DEFINE g == [k \in 0..(n + 1) |-> IF k = n + 1 THEN Base * f[n] + bs[n + 1] ELSE f[k]]
  <2>2. \A k \in 0..n : f[k] = IF k = 0 THEN 0 ELSE Base * f[k - 1] + bs[k]
    BY <2>1 DEF Worth
  <2>3. ASSUME NEW k \in 0..(n + 1)
        PROVE  g[k] = IF k = 0 THEN 0 ELSE Base * g[k - 1] + bs[k]
    <3>1. CASE k = n + 1
      <4>1. g[k] = Base * f[n] + bs[k] /\ g[k - 1] = f[n] /\ k # 0
        BY <3>1
      <4> QED BY <4>1
    <3>2. CASE k \in 0..n
      <4>1. g[k] = f[k] /\ (k # 0 => g[k - 1] = f[k - 1])
        BY <3>2
      <4> QED BY <3>2, <4>1, <2>2
    <3> QED BY <3>1, <3>2
  <2>4. Worth(g, bs, n + 1)
    <3>1. DOMAIN g = 0..(n + 1) /\ g = [k \in 0..(n + 1) |-> g[k]]
      OBVIOUS
    <3> HIDE DEF g
    <3> QED BY <2>3, <3>1 DEF Worth
  <2> QED BY <2>4
<1>3. Nat \subseteq P
  <2> HIDE DEF P
  <2> QED BY <1>1, <1>2, AllNumbers
<1> QED BY <1>3

(* uint8ArrayToBigInt() is what the whole is worth, for some prefixes.        *)
LEMMA BigIntIsWorth ==
    ASSUME NEW bs, Len(bs) \in Nat
    PROVE  \E f : Worth(f, bs, Len(bs)) /\ Tt!ToBigInt(bs) = f[Len(bs)]
<1> DEFINE value == CHOOSE f : Worth(f, bs, Len(bs))
<1>1. Worth(value, bs, Len(bs))
  BY WorthExists
<1>2. Tt!ToBigInt(bs) = value[Len(bs)]
  BY DEF Tt!ToBigInt, Worth
<1> HIDE DEF value
<1> QED BY <1>1, <1>2

(* Bytes that agree are worth the same.                                       *)
LEMMA WorthAgrees ==
    ASSUME NEW m \in Nat, NEW n \in Nat, m <= n, NEW cs, NEW bs, \A k \in 1..m : cs[k] = bs[k],
           NEW f, NEW g, Worth(f, cs, m), Worth(g, bs, n)
    PROVE  \A k \in 0..m : f[k] = g[k]
<1> DEFINE P == {k \in 0..m : f[k] = g[k]}
<1>1. /\ \A k \in 0..m : f[k] = IF k = 0 THEN 0 ELSE Base * f[k - 1] + cs[k]
      /\ \A k \in 0..n : g[k] = IF k = 0 THEN 0 ELSE Base * g[k - 1] + bs[k]
  BY DEF Worth
<1>2. 0 \in P
  BY <1>1
<1>3. ASSUME NEW k \in 0..(m - 1), k \in P PROVE k + 1 \in P
  <2>1. k + 1 \in 1..m /\ k + 1 \in 0..m /\ k + 1 \in 0..n /\ k + 1 # 0 /\ (k + 1) - 1 = k
    OBVIOUS
  <2>2. f[k + 1] = Base * f[k] + cs[k + 1] /\ g[k + 1] = Base * g[k] + bs[k + 1]
    BY <1>1, <2>1
  <2>3. f[k] = g[k] /\ cs[k + 1] = bs[k + 1]
    BY <1>3, <2>1
  <2> QED BY <2>1, <2>2, <2>3
<1>4. 0..m \subseteq P
  <2> HIDE DEF P
  <2> QED BY <1>2, <1>3, NumbersUpTo
<1> QED BY <1>4

(* No bytes are worth nothing.                                                *)
LEMMA EmptyBigInt == Tt!ToBigInt(<<>>) = 0
<1>1. Len(<<>>) = 0
  OBVIOUS
<1>2. PICK f : Worth(f, <<>>, 0) /\ Tt!ToBigInt(<<>>) = f[0]
  BY <1>1, BigIntIsWorth
<1> QED BY <1>2 DEF Worth

(* One more byte multiplies what there is and adds to it.                     *)
LEMMA AppendBigInt ==
    ASSUME NEW S, NEW bs \in Seq(S), NEW d \in S
    PROVE  Tt!ToBigInt(Append(bs, d)) = Base * Tt!ToBigInt(bs) + d
<1> DEFINE more == Append(bs, d)
           m == Len(bs)
<1>1. /\ m \in Nat /\ Len(more) = m + 1 /\ more[m + 1] = d
      /\ \A k \in 1..m : bs[k] = more[k]
  BY AppendProperties, LenProperties
<1>2. PICK f : Worth(f, bs, m) /\ Tt!ToBigInt(bs) = f[m]
  BY <1>1, BigIntIsWorth
<1>3. PICK g : Worth(g, more, m + 1) /\ Tt!ToBigInt(more) = g[m + 1]
  <2>1. Len(more) \in Nat
    BY <1>1
  <2> HIDE DEF more, m
  <2> QED BY <1>1, <2>1, BigIntIsWorth
<1> HIDE DEF more, m
<1>4. f[m] = g[m]
  <2>1. m <= m + 1 /\ m \in 0..m /\ m + 1 \in Nat
    BY <1>1
  <2> QED BY <1>1, <1>2, <1>3, <2>1, WorthAgrees
<1>5. g[m + 1] = Base * g[m] + more[m + 1]
  <2>1. m + 1 \in 0..(m + 1) /\ m + 1 # 0 /\ (m + 1) - 1 = m
    BY <1>1
  <2> QED BY <1>3, <2>1 DEF Worth
<1> QED BY <1>1, <1>2, <1>3, <1>4, <1>5 DEF more

(* Division leaves a smaller number, and a remainder that is a byte.          *)
LEMMA QuotientSmaller ==
    ASSUME NEW n \in Nat \ {0}
    PROVE  \E q \in Nat, r \in 0..(Base - 1) :
              n \div Base = q /\ n % Base = r /\ q < n /\ n = Base * q + r
<1>1. Base \in Nat /\ Base > 1
  BY BaseOK
<1>2. n \div Base \in Int /\ n \div Base >= 0 /\ n % Base \in Nat /\ n % Base < Base
  BY <1>1
<1>3. PICK q \in Nat : q = n \div Base
  BY <1>2
<1>4. PICK r \in 0..(Base - 1) : r = n % Base
  BY <1>1, <1>2
<1>5. PICK p \in Int : p = Base * q
  BY <1>1
<1>6. n = p + r
  BY <1>1, <1>3, <1>4, <1>5
<1>7. p >= 2 * q
  BY <1>1, <1>5
<1>8. q < n
  BY <1>6, <1>7
<1> QED BY <1>3, <1>4, <1>5, <1>6, <1>8

(* The bytes of a number, made from those of a smaller one.                   *)
Digits(f, m) == f = [k \in 0..m |-> IF k = 0 THEN <<>> ELSE Append(f[k \div Base], k % Base)]

(* Every number up to any last one has its bytes.                             *)
LEMMA DigitsExist ==
    ASSUME NEW m \in Nat
    PROVE  \E f : Digits(f, m)
<1> DEFINE P == {n \in Nat : \E f : Digits(f, n)}
<1>1. 0 \in P
  <2> DEFINE f == [k \in 0..0 |-> <<>>]
  <2>1. Digits(f, 0)
    BY DEF Digits
  <2> QED BY <2>1
<1>2. ASSUME NEW n \in Nat, n \in P PROVE n + 1 \in P
  <2>1. PICK f : Digits(f, n)
    BY <1>2
  <2> DEFINE last == Append(f[(n + 1) \div Base], (n + 1) % Base)
             g == [k \in 0..(n + 1) |-> IF k = n + 1 THEN last ELSE f[k]]
  <2>2. \A k \in 0..n : f[k] = IF k = 0 THEN <<>> ELSE Append(f[k \div Base], k % Base)
    BY <2>1 DEF Digits
  <2>3. ASSUME NEW k \in 0..(n + 1)
        PROVE  g[k] = IF k = 0 THEN <<>> ELSE Append(g[k \div Base], k % Base)
    <3>1. k # 0 => k \div Base \in 0..n
      <4>1. ASSUME k # 0 PROVE k \div Base \in 0..n
        <5>1. PICK q \in Nat : k \div Base = q /\ q < k
          BY <4>1, QuotientSmaller
        <5> QED BY <5>1
      <4> QED BY <4>1
    <3>2. k # 0 => g[k \div Base] = f[k \div Base]
      BY <3>1
    <3>3. CASE k = n + 1
      <4>1. g[k] = last /\ k # 0
        BY <3>3
      <4> QED BY <3>2, <3>3, <4>1
    <3>4. CASE k \in 0..n
      <4>1. g[k] = f[k]
        BY <3>4
      <4> HIDE DEF g
      <4> QED BY <2>2, <3>2, <3>4, <4>1
    <3> QED BY <3>3, <3>4
  <2>4. Digits(g, n + 1)
    <3>1. DOMAIN g = 0..(n + 1) /\ g = [k \in 0..(n + 1) |-> g[k]]
      OBVIOUS
    <3> HIDE DEF g
    <3> QED BY <2>3, <3>1 DEF Digits
  <2> QED BY <2>4
<1>3. Nat \subseteq P
  <2> HIDE DEF P
  <2> QED BY <1>1, <1>2, AllNumbers
<1> QED BY <1>3

(* Bytes of the number k, the first of which is not zero.                     *)
Denotes(bs, k) ==
    /\ bs \in Seq(Tt!Byte)
    /\ k = 0 <=> bs = <<>>
    /\ bs # <<>> => bs[1] # 0
    /\ Tt!ToBigInt(bs) = k

(* One more byte makes the bytes of a larger number.                          *)
LEMMA AppendDenotes ==
    ASSUME NEW n \in Nat \ {0}, NEW q \in Nat, NEW r \in 0..(Base - 1), n = Base * q + r,
           NEW bs, Denotes(bs, q)
    PROVE  Denotes(Append(bs, r), n)
<1>1. bs \in Seq(Tt!Byte) /\ r \in Tt!Byte /\ Base \in Nat
  BY BaseOK DEF Denotes, Tt!Byte
<1>2. Append(bs, r) \in Seq(Tt!Byte) /\ Append(bs, r) # <<>>
  BY <1>1, AppendProperties
<1>3. Tt!ToBigInt(Append(bs, r)) = n
  <2>1. Tt!ToBigInt(Append(bs, r)) = Base * Tt!ToBigInt(bs) + r
    BY <1>1, AppendBigInt
  <2> QED BY <2>1 DEF Denotes
<1>4. Append(bs, r)[1] # 0
  <2>1. CASE bs = <<>>
    <3>1. q = 0 /\ n = r
      BY <1>1, <2>1 DEF Denotes
    <3>2. Append(bs, r)[1] = r
      BY <2>1
    <3> QED BY <3>1, <3>2
  <2>2. CASE bs # <<>>
    <3>1. Append(bs, r)[1] = bs[1]
      BY <1>1, <2>2
    <3> QED BY <2>2, <3>1 DEF Denotes
  <2> QED BY <2>1, <2>2
<1> QED BY <1>2, <1>3, <1>4 DEF Denotes

(* Every number up to the last has its bytes.                                 *)
LEMMA DigitsDenote ==
    ASSUME NEW m \in Nat, NEW f, Digits(f, m)
    PROVE  \A k \in 0..m : Denotes(f[k], k)
<1> DEFINE P == {n \in 0..m : \A k \in 0..n : Denotes(f[k], k)}
<1>1. \A k \in 0..m : f[k] = IF k = 0 THEN <<>> ELSE Append(f[k \div Base], k % Base)
  BY DEF Digits
<1>2. 0 \in P
  <2>1. Denotes(<<>>, 0)
    BY EmptyBigInt DEF Denotes
  <2>2. \A k \in 0..0 : f[k] = <<>> /\ k = 0
    BY <1>1
  <2> QED BY <2>1, <2>2
<1>3. ASSUME NEW n \in 0..(m - 1), n \in P PROVE n + 1 \in P
  <2>1. n + 1 \in Nat \ {0} /\ n + 1 \in 0..m
    OBVIOUS
  <2>2. PICK q \in Nat, r \in 0..(Base - 1) :
          (n + 1) \div Base = q /\ (n + 1) % Base = r /\ q < n + 1 /\ n + 1 = Base * q + r
    BY <2>1, QuotientSmaller
  <2>3. f[n + 1] = Append(f[q], r)
    BY <1>1, <2>1, <2>2
  <2>4. Denotes(f[q], q)
    BY <1>3, <2>2
  <2>5. Denotes(f[n + 1], n + 1)
    BY <2>1, <2>2, <2>3, <2>4, AppendDenotes
  <2>6. ASSUME NEW k \in 0..(n + 1) PROVE Denotes(f[k], k)
    <3>1. k = n + 1 \/ k \in 0..n
      OBVIOUS
    <3> QED BY <1>3, <2>5, <3>1
  <2> QED BY <2>1, <2>6
<1>4. 0..m \subseteq P
  <2> HIDE DEF P
  <2> QED BY <1>2, <1>3, NumbersUpTo
<1> QED BY <1>4

(* bigIntToUnpaddedUint8Array() gives bytes that uint8ArrayToBigInt() reads   *)
(* back, and that start with no zero.                                         *)
THEOREM UnpaddedReadsBack ==
    ASSUME NEW n \in Nat
    PROVE  Denotes(Tt!Unpadded(n), n)
<1> DEFINE bytes == CHOOSE f : Digits(f, n)
<1>1. Digits(bytes, n)
  BY DigitsExist
<1>2. Tt!Unpadded(n) = bytes[n]
  BY DEF Tt!Unpadded, Digits
<1> HIDE DEF bytes
<1>3. n \in 0..n
  OBVIOUS
<1> QED BY <1>1, <1>2, <1>3, DigitsDenote

-----------------------------------------------------------------------------
(* Transactions.                                                              *)

(* A signature is one that was made, whoever carries it.                      *)
Signatures(S) == {<<>>} \cup {<<[by |-> s.by, of |-> s.fields]>> : s \in S}

(* The fields of a transaction, and of data that may lack a chain id.         *)
Fields(ids, S) ==
    [chainId : ids, nonce : Nat, maxPriorityFeePerGas : Nat, maxFeePerGas : Nat,
     gasLimit : Nat, to : Seq(Tt!Byte), value : Nat, data : Seq(Tt!Byte),
     accessList : Seq(Seq(Tt!Byte) \X Seq(Seq(Tt!Byte))), descriptor : {<<>>, Tt!Descriptor},
     extraParams : Seq(Tt!Byte), signature : Signatures(S),
     publicKey : {<<>>} \cup {<<s>> : s \in Seeds}]

Typed(S) == Fields(Nat, S)
Choices == [unlimited : BOOLEAN, common : Nat \cup {-1}]

(* What the constructors require of every field but the chain id.             *)
Fits(d, unlimited) ==
    /\ Len(d.to) \in {0, AddressBytes}
    /\ d.value <= MaxInteger
    /\ d.gasLimit <= MaxUint64
    /\ d.nonce < MaxUint64
    /\ d.to = <<>> => unlimited \/ Len(d.data) <= MaxInitCodeSize
    /\ Tt!AccessListOK(d.accessList)
    /\ d.maxFeePerGas <= MaxInteger /\ d.maxPriorityFeePerGas <= MaxInteger
    /\ d.gasLimit * d.maxFeePerGas <= MaxInteger
    /\ d.maxFeePerGas >= d.maxPriorityFeePerGas

(* A constructor gives the data the chain id it may have, if it fits.         *)
LEMMA NewIs ==
    ASSUME NEW d, NEW o
    PROVE  Tt!New(d, o) = {[d EXCEPT !.chainId = id] :
                              id \in IF Fits(d, o.unlimited) THEN Tt!ChainIds(d.chainId, o.common) ELSE {}}
BY DEF Tt!New, Fits

(* It makes a transaction, with the other fields as they were given.          *)
LEMMA NewKeeps ==
    ASSUME NEW S, NEW d \in Fields(Nat \cup {-1}, S), NEW o \in Choices, NEW t \in Tt!New(d, o)
    PROVE  /\ t \in Typed(S) /\ Fits(t, o.unlimited)
           /\ t = [d EXCEPT !.chainId = t.chainId]
<1>1. PICK id \in Tt!ChainIds(d.chainId, o.common) :
        t = [d EXCEPT !.chainId = id] /\ Fits(d, o.unlimited)
  BY NewIs
<1>2. id \in Nat
  BY DEF Tt!ChainIds, Tt!Absent, Tt!Mainnet, Fields, Choices
<1>3. t \in Typed(S) /\ t.chainId = id
  BY <1>1, <1>2 DEF Typed, Fields
<1>4. /\ t.to = d.to /\ t.value = d.value /\ t.gasLimit = d.gasLimit /\ t.nonce = d.nonce
      /\ t.data = d.data /\ t.accessList = d.accessList /\ t.maxFeePerGas = d.maxFeePerGas
      /\ t.maxPriorityFeePerGas = d.maxPriorityFeePerGas
  BY <1>1 DEF Fields
<1>5. Fits(t, o.unlimited)
  BY <1>1, <1>4 DEF Fits
<1> QED BY <1>1, <1>3, <1>5

(* Made again without options, a transaction is what it was, or refused.      *)
LEMMA NewOfMade ==
    ASSUME NEW S, NEW t \in Typed(S)
    PROVE  Tt!New(t, Tt!NoOptions) = IF Fits(t, FALSE) THEN {t} ELSE {}
<1>1. t.chainId \in Nat /\ t = [t EXCEPT !.chainId = t.chainId]
  BY DEF Typed, Fields
<1>2. Tt!ChainIds(t.chainId, Tt!NoOptions.common) = {t.chainId}
  BY <1>1 DEF Tt!ChainIds, Tt!NoOptions, Tt!Absent
<1>3. Tt!NoOptions.unlimited = FALSE
  BY DEF Tt!NoOptions
<1> QED BY <1>1, <1>2, <1>3, NewIs

(* The bytes of a transaction, read by fromValuesArray(), make it again.      *)
LEMMA RawReads ==
    ASSUME NEW S, NEW t \in Typed(S)
    PROVE  Tt!FromValuesArray(Tt!Raw(t)) = Tt!New(t, Tt!NoOptions)
<1> DEFINE r == Tt!Raw(t)
<1>1. /\ Len(r) = 13
      /\ r[1] = Tt!Unpadded(t.chainId) /\ r[2] = Tt!Unpadded(t.nonce)
      /\ r[3] = Tt!Unpadded(t.maxPriorityFeePerGas) /\ r[4] = Tt!Unpadded(t.maxFeePerGas)
      /\ r[5] = Tt!Unpadded(t.gasLimit) /\ r[7] = Tt!Unpadded(t.value)
      /\ r[6] = t.to /\ r[8] = t.data /\ r[9] = t.accessList /\ r[10] = t.descriptor
      /\ r[11] = t.extraParams /\ r[12] = t.signature /\ r[13] = t.publicKey
  BY DEF Tt!Raw
<1>2. /\ t.chainId \in Nat /\ t.nonce \in Nat /\ t.maxPriorityFeePerGas \in Nat
      /\ t.maxFeePerGas \in Nat /\ t.gasLimit \in Nat /\ t.value \in Nat
  BY DEF Typed, Fields
<1>3. /\ Denotes(r[1], t.chainId) /\ Denotes(r[2], t.nonce) /\ Denotes(r[3], t.maxPriorityFeePerGas)
      /\ Denotes(r[4], t.maxFeePerGas) /\ Denotes(r[5], t.gasLimit) /\ Denotes(r[7], t.value)
  BY <1>1, <1>2, UnpaddedReadsBack
<1> HIDE DEF r
<1>4. /\ Tt!ToBigInt(r[1]) = t.chainId /\ Tt!ToBigInt(r[2]) = t.nonce
      /\ Tt!ToBigInt(r[3]) = t.maxPriorityFeePerGas /\ Tt!ToBigInt(r[4]) = t.maxFeePerGas
      /\ Tt!ToBigInt(r[5]) = t.gasLimit /\ Tt!ToBigInt(r[7]) = t.value
      /\ \A i \in Tt!Numeric : r[i] # <<>> => r[i][1] # 0
  BY <1>3 DEF Denotes, Tt!Numeric
<1>5. t = [chainId |-> Tt!ToBigInt(r[1]), nonce |-> Tt!ToBigInt(r[2]),
           maxPriorityFeePerGas |-> Tt!ToBigInt(r[3]), maxFeePerGas |-> Tt!ToBigInt(r[4]),
           gasLimit |-> Tt!ToBigInt(r[5]), to |-> r[6], value |-> Tt!ToBigInt(r[7]),
           data |-> r[8], accessList |-> r[9], descriptor |-> r[10],
           extraParams |-> r[11], signature |-> r[12], publicKey |-> r[13]]
  BY <1>1, <1>4 DEF Typed, Fields
<1>6. Tt!FromValuesArray(r) =
        Tt!New([chainId |-> Tt!ToBigInt(r[1]), nonce |-> Tt!ToBigInt(r[2]),
           maxPriorityFeePerGas |-> Tt!ToBigInt(r[3]), maxFeePerGas |-> Tt!ToBigInt(r[4]),
           gasLimit |-> Tt!ToBigInt(r[5]), to |-> r[6], value |-> Tt!ToBigInt(r[7]),
           data |-> r[8], accessList |-> r[9], descriptor |-> r[10],
           extraParams |-> r[11], signature |-> r[12], publicKey |-> r[13]], Tt!NoOptions)
  BY <1>1, <1>4 DEF Tt!FromValuesArray
<1> QED BY <1>5, <1>6 DEF r

(* What is signed is every field but the signature and the key.               *)
LEMMA MessageIsPrefix ==
    ASSUME NEW t
    PROVE  Tt!GetMessageToSign(t, t.descriptor, t.extraParams) = SubSeq(Tt!Raw(t), 1, 11)
BY DEF Tt!GetMessageToSign, Tt!Raw

(* At any base fee, a transaction costs its maximum fee at most.              *)
LEMMA CostIsBounded ==
    ASSUME NEW S, NEW t \in Typed(S), NEW fee \in Nat
    PROVE  Tt!GetUpfrontCost(t, fee) <= t.gasLimit * t.maxFeePerGas + t.value
<1> DEFINE most == t.maxFeePerGas - fee
           tip == IF t.maxPriorityFeePerGas < most THEN t.maxPriorityFeePerGas ELSE most
<1>1. /\ t.gasLimit \in Nat /\ t.maxFeePerGas \in Nat /\ t.maxPriorityFeePerGas \in Nat
      /\ t.value \in Nat
  BY DEF Typed, Fields
<1>2. PICK paid \in Int : paid = tip + fee /\ paid <= t.maxFeePerGas
  BY <1>1
<1>3. Tt!GetUpfrontCost(t, fee) = t.gasLimit * paid + t.value
  BY <1>2 DEF Tt!GetUpfrontCost
<1>4. PICK g \in Nat, m \in Nat, v \in Nat : g = t.gasLimit /\ m = t.maxFeePerGas /\ v = t.value
  BY <1>1
<1>5. g * paid <= g * m
  <2>1. g * (m - paid) >= 0
    BY <1>2, <1>4
  <2>2. g * (m - paid) = g * m - g * paid
    OBVIOUS
  <2> QED BY <2>1, <2>2
<1>6. g * paid + v <= g * m + v
  BY <1>5
<1> QED BY <1>3, <1>4, <1>6

(* The transaction the application holds, whose data are in the array; what   *)
(* was given away of it, which fits as it was made; a signed transaction that *)
(* the application did not sign itself came out of signTransaction().         *)
HeldOK ==
    /\ options \in Choices
    /\ data \in Seq(Tt!Byte)
    /\ \A s \in signed : s = [by |-> s.by, fields |-> s.fields]
    /\ tx # <<>> => /\ tx[1] \in Typed(signed) /\ Fits(tx[1], options.unlimited)
                    /\ Len(data) = Len(tx[1].data)

GivenOK ==
    /\ returned # <<>> =>
          /\ tx # <<>>
          /\ returned[1] \in Typed(signed) /\ Fits(returned[1], options.unlimited)
          /\ Tt!IsSigned(returned[1]) /\ ~Tt!IsSigned(tx[1]) =>
                /\ Tt!Validate(returned[1])
                /\ returned[1].publicKey[1] \in {s.by : s \in signed}
    /\ returned = <<>> => wire = <<>> /\ parsed = {} /\ sender = {}

(* What is on the wire carries no signature that was not made; what was       *)
(* received came from there, or from JSON.                                    *)
ReceivedOK ==
    /\ wire # <<>> =>
          /\ wire[1] = [type |-> wire[1].type, values |-> wire[1].values]
          /\ parsed \subseteq Tt!FromSerialized(wire[1])
          /\ Len(wire[1].values) > 11 => wire[1].values[12] \in Signatures(signed)
    /\ wire = <<>> /\ returned # <<>> => parsed \subseteq {returned[1]}
    /\ \A k \in sender : \E t \in parsed : t.publicKey # <<>> /\ k = t.publicKey[1]

(* The inductive invariant.                                                   *)
TxInv == HeldOK /\ GivenOK /\ ReceivedOK /\ Tt!SenderSignedIt

(* More signatures change nothing for those there are.                        *)
LEMMA MoreSignatures ==
    ASSUME NEW S, NEW R, S \subseteq R
    PROVE  Signatures(S) \subseteq Signatures(R) /\ Typed(S) \subseteq Typed(R)
BY DEF Signatures, Typed, Fields

(* The transaction with its data as it is now fits as it did.                 *)
LEMMA TxFits ==
    ASSUME HeldOK, tx # <<>>
    PROVE  /\ Tt!Tx \in Typed(signed) /\ Fits(Tt!Tx, options.unlimited)
           /\ Tt!IsSigned(Tt!Tx) <=> Tt!IsSigned(tx[1])
           /\ Tt!Tx.data = data
<1>1. tx[1] \in Typed(signed) /\ data \in Seq(Tt!Byte) /\ Len(data) = Len(tx[1].data)
  BY DEF HeldOK
<1>2. Tt!Tx \in Typed(signed) /\ Tt!Tx.data = data
  BY <1>1 DEF Tt!Tx, Typed, Fields
<1>3. /\ Tt!Tx.to = tx[1].to /\ Tt!Tx.value = tx[1].value /\ Tt!Tx.gasLimit = tx[1].gasLimit
      /\ Tt!Tx.nonce = tx[1].nonce /\ Tt!Tx.accessList = tx[1].accessList
      /\ Tt!Tx.maxFeePerGas = tx[1].maxFeePerGas
      /\ Tt!Tx.maxPriorityFeePerGas = tx[1].maxPriorityFeePerGas
      /\ Tt!Tx.descriptor = tx[1].descriptor /\ Tt!Tx.signature = tx[1].signature
      /\ Tt!Tx.publicKey = tx[1].publicKey
  BY <1>1 DEF Tt!Tx, Typed, Fields
<1>4. Fits(Tt!Tx, options.unlimited)
  BY <1>1, <1>2, <1>3 DEF HeldOK, Fits
<1>5. Tt!IsSigned(Tt!Tx) <=> Tt!IsSigned(tx[1])
  BY <1>3 DEF Tt!IsSigned
<1> QED BY <1>2, <1>4, <1>5

(* sign() makes a signed transaction, that carries the one signature made.    *)
LEMMA SignedFits ==
    ASSUME HeldOK, tx # <<>>, NEW seed \in Seeds, NEW t \in Tt!Signed(Tt!Tx, seed), NEW S,
           S = {[by |-> seed, fields |-> SubSeq(Tt!Raw(Tt!Tx), 1, 9) \o <<Tt!Descriptor, <<>>>>]}
    PROVE  /\ t \in Typed(S) /\ Fits(t, options.unlimited)
           /\ Tt!IsSigned(t) /\ t.publicKey = <<seed>> /\ t.data = data
<1> DEFINE m == Tt!GetMessageToSign(Tt!Tx, Tt!Descriptor, <<>>)
           sig == <<[by |-> seed, of |-> m]>>
           d == [Tt!Tx EXCEPT !.descriptor = Tt!Descriptor, !.extraParams = <<>>,
                              !.publicKey = <<seed>>, !.signature = sig]
           o == [options EXCEPT !.common = Tt!Tx.chainId]
<1>1. Tt!Tx \in Typed(signed) /\ Tt!Tx.data = data /\ Tt!Tx.chainId \in Nat /\ options \in Choices
  BY TxFits DEF HeldOK, Typed, Fields
<1>2. sig \in Signatures(S)
  <2>1. PICK s \in S : s = [by |-> seed, fields |-> m]
    BY DEF Tt!GetMessageToSign
  <2>2. s.by = seed /\ s.fields = m
    BY <2>1
  <2> QED BY <2>1, <2>2 DEF Signatures
<1> HIDE DEF m
<1>3. o \in Choices /\ o.unlimited = options.unlimited
  BY <1>1 DEF Choices
<1>4. t \in Tt!New(d, o)
  BY DEF Tt!Signed, m
<1> HIDE DEF sig, o
<1>5. /\ d \in Fields(Nat \cup {-1}, S) /\ d.data = data /\ d.publicKey = <<seed>>
      /\ d.signature = sig /\ d.descriptor = Tt!Descriptor
  <2>1. <<>> \in Seq(Tt!Byte) /\ <<seed>> \in {<<>>} \cup {<<s>> : s \in Seeds}
    OBVIOUS
  <2> QED BY <1>1, <1>2, <2>1 DEF Typed, Fields
<1> HIDE DEF d
<1>6. t \in Typed(S) /\ Fits(t, o.unlimited) /\ t = [d EXCEPT !.chainId = t.chainId]
  BY <1>3, <1>4, <1>5, NewKeeps
<1>7. /\ t.data = data /\ t.publicKey = <<seed>> /\ t.signature = sig
      /\ t.descriptor = Tt!Descriptor
  BY <1>5, <1>6 DEF Fields
<1>8. Tt!IsSigned(t)
  BY <1>7 DEF Tt!IsSigned, Tt!Descriptor, sig
<1> QED BY <1>3, <1>6, <1>7, <1>8

(* fromTxData() makes the transaction, once.                                  *)
LEMMA FromTxDataStep ==
    ASSUME TxInv, NEW d \in TxDatas, NEW type, NEW o \in Options, Tt!FromTxData(d, type, o)
    PROVE  TxInv'
<1>1. PICK t \in Tt!New(d, o) : tx' = <<t>>
  BY DEF Tt!FromTxData
<1>2. /\ tx = <<>> /\ data' = d.data /\ options' = o
      /\ signed' = signed /\ returned' = returned /\ wire' = wire
      /\ parsed' = parsed /\ sender' = sender
  BY DEF Tt!FromTxData
<1>3. d \in Fields(Nat \cup {-1}, signed) /\ o \in Choices
  BY ConstantsAreOK DEF Tt!ConstantsOK, Tt!Unsigned, Fields, Signatures, Choices
<1>4. t \in Typed(signed) /\ Fits(t, o.unlimited) /\ t = [d EXCEPT !.chainId = t.chainId]
  BY <1>3, NewKeeps
<1>5. t.data = d.data /\ d.data \in Seq(Tt!Byte)
  BY <1>3, <1>4 DEF Fields
<1>6. HeldOK'
  BY <1>1, <1>2, <1>3, <1>4, <1>5 DEF TxInv, HeldOK
<1>7. returned = <<>> /\ wire = <<>> /\ sender = {}
  BY <1>2 DEF TxInv, GivenOK
<1>8. GivenOK' /\ ReceivedOK' /\ Tt!SenderSignedIt'
  BY <1>2, <1>7 DEF TxInv, GivenOK, ReceivedOK, Tt!SenderSignedIt
<1> QED BY <1>6, <1>8 DEF TxInv

(* The caller changes the data, not how many there are.                       *)
LEMMA OverwriteStep ==
    ASSUME TxInv, NEW bs \in Tt!Byte, Tt!Overwrite(bs)
    PROVE  TxInv'
<1>1. /\ data' = [data EXCEPT ![1] = bs] /\ options' = options /\ tx' = tx
      /\ signed' = signed /\ returned' = returned /\ wire' = wire
      /\ parsed' = parsed /\ sender' = sender
  BY DEF Tt!Overwrite
<1>2. data' \in Seq(Tt!Byte) /\ Len(data') = Len(data)
  <2>1. data \in Seq(Tt!Byte) /\ data # <<>>
    BY DEF TxInv, HeldOK, Tt!Overwrite
  <2> QED BY <1>1, <2>1, ExceptSeq
<1>3. HeldOK'
  BY <1>1, <1>2 DEF TxInv, HeldOK
<1>4. GivenOK' /\ ReceivedOK' /\ Tt!SenderSignedIt'
  BY <1>1 DEF TxInv, GivenOK, ReceivedOK, Tt!SenderSignedIt
<1> QED BY <1>3, <1>4 DEF TxInv

(* sign() replaces the transaction by a signed one.                           *)
LEMMA SignStep ==
    ASSUME TxInv, NEW seed \in Seeds, Tt!Sign(seed)
    PROVE  TxInv'
<1>1. PICK t \in Tt!Signed(Tt!Tx, seed) : tx' = <<t>>
  BY DEF Tt!Sign
<1>2. PICK S : S = {[by |-> seed, fields |-> SubSeq(Tt!Raw(Tt!Tx), 1, 9) \o <<Tt!Descriptor, <<>>>>]}
  OBVIOUS
<1>3. /\ tx # <<>> /\ signed = {} /\ signed' = S /\ data' = data /\ options' = options
      /\ returned' = returned /\ wire' = wire /\ parsed' = parsed /\ sender' = sender
  BY <1>2 DEF Tt!Sign
<1>4. /\ t \in Typed(S) /\ Fits(t, options.unlimited) /\ Tt!IsSigned(t) /\ t.data = data
      /\ \A s \in S : s = [by |-> s.by, fields |-> s.fields]
  <2>1. HeldOK
    BY DEF TxInv
  <2>2. \A s \in S : s = [by |-> s.by, fields |-> s.fields]
    BY <1>2
  <2> QED BY <1>2, <1>3, <2>1, <2>2, SignedFits
<1>5. HeldOK'
  BY <1>1, <1>3, <1>4 DEF TxInv, HeldOK
<1>6. Signatures(signed) \subseteq Signatures(S) /\ Typed(signed) \subseteq Typed(S)
  BY <1>3, MoreSignatures
<1>7. GivenOK'
  BY <1>1, <1>3, <1>4, <1>6 DEF TxInv, GivenOK
<1>8. ReceivedOK' /\ Tt!SenderSignedIt'
  BY <1>3, <1>6 DEF TxInv, ReceivedOK, Tt!SenderSignedIt
<1> QED BY <1>5, <1>7, <1>8 DEF TxInv

(* The twelfth value of a transaction is its signature.                       *)
LEMMA RawSignature ==
    ASSUME NEW S, NEW t \in Typed(S)
    PROVE  Tt!Raw(t)[12] \in Signatures(S)
<1>1. Tt!Raw(t)[12] = t.signature
  BY DEF Tt!Raw
<1> QED BY <1>1 DEF Typed, Fields

(* signTransaction() gives away a signed and valid transaction, serialised.   *)
LEMMA SignTransactionStep ==
    ASSUME TxInv, NEW seed \in Seeds, Tt!SignTransaction(seed)
    PROVE  TxInv'
<1>1. PICK t \in Tt!Signed(Tt!Tx, seed) :
        Tt!Validate(t) /\ wire' = <<[type |-> 2, values |-> Tt!Raw(t)]>> /\ returned' = <<t>>
  BY DEF Tt!SignTransaction, Tt!Serialize
<1>2. PICK S : S = {[by |-> seed, fields |-> SubSeq(Tt!Raw(Tt!Tx), 1, 9) \o <<Tt!Descriptor, <<>>>>]}
  OBVIOUS
<1>3. /\ tx # <<>> /\ signed = {} /\ returned = <<>> /\ signed' = S /\ data' = data
      /\ options' = options /\ tx' = tx /\ parsed' = parsed /\ sender' = sender
  BY <1>2 DEF Tt!SignTransaction
<1>4. /\ t \in Typed(S) /\ Fits(t, options.unlimited) /\ Tt!IsSigned(t) /\ t.publicKey = <<seed>>
      /\ \A s \in S : s = [by |-> s.by, fields |-> s.fields]
      /\ seed \in {s.by : s \in S}
  <2>1. HeldOK
    BY DEF TxInv
  <2>2. (\A s \in S : s = [by |-> s.by, fields |-> s.fields]) /\ seed \in {s.by : s \in S}
    BY <1>2
  <2> QED BY <1>2, <1>3, <2>1, <2>2, SignedFits
<1>5. Signatures(signed) \subseteq Signatures(S) /\ Typed(signed) \subseteq Typed(S)
  BY <1>3, MoreSignatures
<1>6. HeldOK'
  BY <1>3, <1>4, <1>5 DEF TxInv, HeldOK
<1>7. returned'[1] = t /\ returned' # <<>> /\ wire' # <<>> /\ t.publicKey[1] = seed
  BY <1>1, <1>4
<1>8. GivenOK'
  BY <1>1, <1>3, <1>4, <1>7 DEF GivenOK
<1>9. parsed = {} /\ sender = {}
  BY <1>3 DEF TxInv, GivenOK
<1>10. /\ wire'[1].values = Tt!Raw(t) /\ Tt!Raw(t)[12] \in Signatures(S)
       /\ wire'[1] = [type |-> wire'[1].type, values |-> wire'[1].values]
  BY <1>1, <1>4, RawSignature
<1>11. ReceivedOK' /\ Tt!SenderSignedIt'
  BY <1>3, <1>7, <1>9, <1>10 DEF ReceivedOK, Tt!SenderSignedIt
<1> QED BY <1>6, <1>8, <1>11 DEF TxInv

(* serialize() and toJSON() give the transaction away as it is now.           *)
LEMMA GivenStep ==
    ASSUME TxInv, Tt!Serializes \/ Tt!ThroughJSON
    PROVE  TxInv'
<1>1. PICK t : t = Tt!Tx
  OBVIOUS
<1>2. /\ tx # <<>> /\ returned = <<>> /\ returned' = <<t>> /\ data' = data
      /\ options' = options /\ tx' = tx /\ signed' = signed /\ sender' = sender
  BY <1>1 DEF Tt!Serializes, Tt!ThroughJSON
<1>3. /\ t \in Typed(signed) /\ Fits(t, options.unlimited)
      /\ Tt!IsSigned(t) <=> Tt!IsSigned(tx[1])
  BY <1>1, <1>2, TxFits DEF TxInv
<1>4. HeldOK'
  BY <1>2 DEF TxInv, HeldOK
<1>5. GivenOK'
  BY <1>2, <1>3 DEF GivenOK
<1>6. wire = <<>> /\ parsed = {} /\ sender = {}
  BY <1>2 DEF TxInv, GivenOK
<1>7. ReceivedOK'
  <2>1. CASE Tt!Serializes
    <3>1. wire' = <<[type |-> 2, values |-> Tt!Raw(t)]>> /\ parsed' = parsed
      BY <1>1, <2>1 DEF Tt!Serializes, Tt!Serialize
    <3>2. wire'[1].values = Tt!Raw(t) /\ Tt!Raw(t)[12] \in Signatures(signed) /\ wire' # <<>>
      BY <1>3, <3>1, RawSignature
    <3> QED BY <1>2, <1>6, <3>1, <3>2 DEF ReceivedOK
  <2>2. CASE Tt!ThroughJSON
    <3>1. wire' = wire /\ parsed' = Tt!New(t, Tt!NoOptions)
      BY <1>1, <2>2 DEF Tt!ThroughJSON
    <3>2. parsed' \subseteq {t}
      BY <1>3, <3>1, NewOfMade
    <3> QED BY <1>2, <1>6, <3>1, <3>2 DEF ReceivedOK
  <2> QED BY <2>1, <2>2
<1>8. Tt!SenderSignedIt'
  BY <1>2, <1>6 DEF Tt!SenderSignedIt
<1> QED BY <1>4, <1>5, <1>7, <1>8 DEF TxInv

(* What the serialised transaction is altered to carries no other signature.  *)
LEMMA AlterStep ==
    ASSUME TxInv, Tt!Alter
    PROVE  TxInv'
<1> DEFINE w == wire[1]
<1>1. PICK t : t = returned[1]
  OBVIOUS
<1>2. /\ wire # <<>> /\ parsed = {} /\ sender = {} /\ returned # <<>> /\ w.values = Tt!Raw(t)
      /\ data' = data /\ options' = options /\ tx' = tx /\ signed' = signed
      /\ returned' = returned /\ parsed' = parsed /\ sender' = sender
  BY <1>1 DEF Tt!Alter, Tt!Unread
<1>3. HeldOK'
  BY <1>2 DEF TxInv, HeldOK
<1>4. GivenOK'
  BY <1>2 DEF TxInv, GivenOK
<1>5. Tt!Raw(t)[12] \in Signatures(signed)
  BY <1>1, <1>2, RawSignature DEF TxInv, GivenOK
<1>6. /\ wire' # <<>> /\ (Len(wire'[1].values) > 11 => wire'[1].values[12] \in Signatures(signed))
      /\ wire'[1] = [type |-> wire'[1].type, values |-> wire'[1].values]
  <2>1. PICK type, r : w = [type |-> type, values |-> r]
    BY <1>2 DEF TxInv, ReceivedOK
  <2>2. r = Tt!Raw(t) /\ r[12] \in Signatures(signed)
    BY <1>2, <1>5, <2>1
  <2>3. /\ DOMAIN r = 1..13 /\ Len(r) = 13
        /\ Len(SubSeq(r, 1, 11)) = 11 /\ SubSeq(r, 1, 12)[12] = r[12]
    BY <2>2 DEF Tt!Raw
  <2>4. w.values = r /\ wire[1] = [type |-> type, values |-> r]
    BY <2>1
  <2> HIDE DEF w
  <2>5. CASE \E i \in DOMAIN w.values : \E v \in Tt!Altered(i) :
               wire' = <<[w EXCEPT !.values = [w.values EXCEPT ![i] = v]]>>
    <3>1. PICK i \in DOMAIN r : \E v \in Tt!Altered(i) :
            wire' = <<[w EXCEPT !.values = [r EXCEPT ![i] = v]]>>
      BY <2>4, <2>5
    <3>2. PICK v \in Tt!Altered(i) : wire' = <<[type |-> type, values |-> [r EXCEPT ![i] = v]]>>
      BY <2>1, <3>1
    <3>3. i = 12 => v = <<>>
      BY <3>2 DEF Tt!Altered, Tt!Numeric
    <3>4. [r EXCEPT ![i] = v][12] \in Signatures(signed)
      BY <2>2, <2>3, <3>3 DEF Signatures
    <3> QED BY <3>2, <3>4
  <2>6. CASE \E n \in {11, 12} : wire' = <<[w EXCEPT !.values = SubSeq(@, 1, n)]>>
    <3>1. PICK n \in {11, 12} : wire' = <<[w EXCEPT !.values = SubSeq(w.values, 1, n)]>>
      BY <2>6
    <3>2. wire' = <<[type |-> type, values |-> SubSeq(r, 1, n)]>>
      BY <2>1, <2>4, <3>1
    <3> QED BY <2>2, <2>3, <3>2
  <2>7. CASE wire' = <<[w EXCEPT !.type = 1]>>
    <3>1. wire' = <<[type |-> 1, values |-> r]>>
      BY <2>1, <2>7
    <3> QED BY <2>2, <3>1
  <2> QED BY <2>5, <2>6, <2>7 DEF Tt!Alter, w
<1>7. ReceivedOK' /\ Tt!SenderSignedIt'
  BY <1>2, <1>6 DEF ReceivedOK, Tt!SenderSignedIt
<1> QED BY <1>3, <1>4, <1>7 DEF TxInv

(* fromSerializedData() reads what is on the wire.                            *)
LEMMA ParseStep ==
    ASSUME TxInv, Tt!Parse
    PROVE  TxInv'
<1>1. /\ wire # <<>> /\ sender = {} /\ parsed' = Tt!FromSerialized(wire[1])
      /\ data' = data /\ options' = options /\ tx' = tx /\ signed' = signed
      /\ returned' = returned /\ wire' = wire /\ sender' = sender
  BY DEF Tt!Parse, Tt!Unread
<1>2. HeldOK'
  BY <1>1 DEF TxInv, HeldOK
<1>3. returned # <<>>
  BY <1>1 DEF TxInv, GivenOK
<1>4. GivenOK'
  BY <1>1, <1>3 DEF TxInv, GivenOK
<1>5. ReceivedOK' /\ Tt!SenderSignedIt'
  BY <1>1 DEF TxInv, ReceivedOK, Tt!SenderSignedIt
<1> QED BY <1>2, <1>4, <1>5 DEF TxInv

(* A transaction read from values has the twelfth as its signature.           *)
LEMMA ReadSignature ==
    ASSUME NEW v, NEW t \in Tt!FromValuesArray(v), t.signature # <<>>
    PROVE  Len(v) > 11 /\ t.signature = v[12]
<1> DEFINE value(i) == IF i <= Len(v) THEN v[i] ELSE <<>>
           d == [chainId |-> Tt!ToBigInt(v[1]), nonce |-> Tt!ToBigInt(v[2]),
                 maxPriorityFeePerGas |-> Tt!ToBigInt(v[3]), maxFeePerGas |-> Tt!ToBigInt(v[4]),
                 gasLimit |-> Tt!ToBigInt(v[5]), to |-> v[6], value |-> Tt!ToBigInt(v[7]),
                 data |-> v[8], accessList |-> v[9], descriptor |-> value(10),
                 extraParams |-> value(11), signature |-> value(12), publicKey |-> value(13)]
<1>1. t \in Tt!New(d, Tt!NoOptions) /\ Len(v) \in {11, 13}
  BY DEF Tt!FromValuesArray
<1>2. PICK id : t = [d EXCEPT !.chainId = id]
  <2> HIDE DEF d
  <2> QED BY <1>1, NewIs
<1>3. t.signature = value(12)
  BY <1>2
<1> QED BY <1>1, <1>3

(* At most one transaction is read.                                           *)
LEMMA ReadsOne ==
    ASSUME NEW w, NEW t \in Tt!FromSerialized(w), NEW u \in Tt!FromSerialized(w)
    PROVE  t = u
<1>1. PICK d : t \in Tt!New(d, Tt!NoOptions) /\ u \in Tt!New(d, Tt!NoOptions)
  BY DEF Tt!FromSerialized, Tt!FromValuesArray
<1>2. \A i, j \in Tt!ChainIds(d.chainId, Tt!NoOptions.common) : i = j
  BY DEF Tt!ChainIds
<1> QED BY <1>1, <1>2, NewIs

(* recoverTransaction() attributes a transaction to who signed it.            *)
LEMMA RecoverTransactionStep ==
    ASSUME TxInv, Tt!RecoverTransaction
    PROVE  TxInv'
<1>1. PICK w, P : /\ w = wire[1]
                  /\ P = {t \in Tt!FromSerialized(w) : Tt!VerifySignature(t)}
  OBVIOUS
<1>2. /\ wire # <<>> /\ parsed' = P /\ sender' = {t.publicKey[1] : t \in P}
      /\ data' = data /\ options' = options /\ tx' = tx /\ signed' = signed
      /\ returned' = returned /\ wire' = wire
  BY <1>1 DEF Tt!RecoverTransaction, Tt!Unread
<1>3. HeldOK'
  BY <1>2 DEF TxInv, HeldOK
<1>4. returned # <<>>
  BY <1>2 DEF TxInv, GivenOK
<1>5. GivenOK'
  BY <1>2, <1>4 DEF TxInv, GivenOK
<1>6. \A t \in P : t.publicKey # <<>> /\ t.signature # <<>>
  BY <1>1 DEF Tt!VerifySignature, Tt!IsSigned
<1>7. ReceivedOK'
  BY <1>1, <1>2, <1>6 DEF TxInv, ReceivedOK
<1>8. ASSUME NEW t \in P
      PROVE  [by |-> t.publicKey[1], fields |-> SubSeq(Tt!Raw(t), 1, 11)] \in signed
  <2>1. t \in Tt!FromValuesArray(w.values) /\ Tt!VerifySignature(t)
    BY <1>1 DEF Tt!FromSerialized
  <2>2. Len(w.values) > 11 /\ t.signature = w.values[12]
    BY <1>6, <2>1, ReadSignature
  <2>3. t.signature \in Signatures(signed)
    BY <1>1, <1>2, <2>2 DEF TxInv, ReceivedOK
  <2>4. PICK s \in signed : t.signature = <<[by |-> s.by, of |-> s.fields]>>
    BY <1>6, <2>3 DEF Signatures
  <2>5. s.by = t.publicKey[1] /\ s.fields = SubSeq(Tt!Raw(t), 1, 11)
    <3>1. /\ t.signature[1].by = t.publicKey[1]
          /\ t.signature[1].of = Tt!GetMessageToSign(t, t.descriptor, t.extraParams)
      BY <2>1 DEF Tt!VerifySignature
    <3>2. t.signature[1].by = s.by /\ t.signature[1].of = s.fields
      BY <2>4
    <3> QED BY <3>1, <3>2, MessageIsPrefix
  <2>6. s = [by |-> s.by, fields |-> s.fields]
    BY <2>4 DEF TxInv, HeldOK
  <2> QED BY <2>4, <2>5, <2>6
<1>9. \A t, u \in P : t = u
  BY <1>1, ReadsOne
<1>10. Tt!SenderSignedIt'
  BY <1>2, <1>8, <1>9 DEF Tt!SenderSignedIt
<1> QED BY <1>3, <1>5, <1>7, <1>10 DEF TxInv

(* Every step of a transaction keeps the invariant.                           *)
LEMMA TxStep == TxInv /\ [Tt!Next]_txVars => TxInv'
<1> SUFFICES ASSUME TxInv, [Tt!Next]_txVars PROVE TxInv'
  OBVIOUS
<1>1. CASE Tt!Hash \/ UNCHANGED txVars
  <2>1. /\ data' = data /\ options' = options /\ tx' = tx /\ signed' = signed
        /\ returned' = returned /\ wire' = wire /\ parsed' = parsed /\ sender' = sender
    BY <1>1 DEF Tt!Hash, txVars
  <2> QED BY <2>1 DEF TxInv, HeldOK, GivenOK, ReceivedOK, Tt!SenderSignedIt
<1>2. CASE \E d \in TxDatas, type \in {0, 2}, o \in Options : Tt!FromTxData(d, type, o)
  BY <1>2, FromTxDataStep
<1>3. CASE \E bs \in Tt!Byte : Tt!Overwrite(bs)
  BY <1>3, OverwriteStep
<1>4. CASE \E seed \in Seeds : Tt!Sign(seed) \/ Tt!SignTransaction(seed)
  BY <1>4, SignStep, SignTransactionStep
<1>5. CASE Tt!Serializes \/ Tt!ThroughJSON
  BY <1>5, GivenStep
<1>6. CASE Tt!Alter \/ Tt!Parse \/ Tt!RecoverTransaction
  BY <1>6, AlterStep, ParseStep, RecoverTransactionStep
<1> QED BY <1>1, <1>2, <1>3, <1>4, <1>5, <1>6 DEF Tt!Next

(* What is given away and not altered is what can be received.                *)
LEMMA ReceivedFromTxInv == TxInv => Tt!ReceivedAsSent
<1> SUFFICES ASSUME TxInv, returned # <<>> PROVE Tt!ReceivedAsSent
  BY DEF Tt!ReceivedAsSent
<1>1. PICK t : t = returned[1]
  OBVIOUS
<1>2. /\ tx # <<>> /\ t \in Typed(signed) /\ Fits(t, options.unlimited)
      /\ Tt!IsSigned(t) /\ ~Tt!IsSigned(tx[1]) =>
            Tt!Validate(t) /\ t.publicKey[1] \in {s.by : s \in signed}
  BY <1>1 DEF TxInv, GivenOK
<1>3. Tt!FromValuesArray(Tt!Raw(t)) = Tt!New(t, Tt!NoOptions)
  BY <1>2, RawReads
<1>4. Tt!New(t, Tt!NoOptions) = IF Fits(t, FALSE) THEN {t} ELSE {}
  BY <1>2, NewOfMade
<1>5. ~(options.unlimited /\ t.to = <<>>) => Fits(t, FALSE)
  BY <1>2 DEF Fits
<1>6. Tt!FromValuesArray(Tt!Raw(t)) = IF options.unlimited /\ t.to = <<>>
                                      THEN Tt!New(t, Tt!NoOptions) ELSE {t}
  BY <1>3, <1>4, <1>5
<1>7. ASSUME Tt!Unaltered(t) PROVE parsed \subseteq {t}
  <2>1. CASE wire = <<>>
    BY <1>1, <2>1 DEF TxInv, ReceivedOK
  <2>2. CASE wire # <<>>
    <3>1. wire[1] = [type |-> 2, values |-> Tt!Raw(t)]
      BY <1>7, <2>2 DEF Tt!Unaltered
    <3>2. Tt!FromSerialized(wire[1]) = Tt!FromValuesArray(Tt!Raw(t))
      BY <3>1 DEF Tt!FromSerialized
    <3> QED BY <1>3, <1>4, <2>2, <3>2 DEF TxInv, ReceivedOK
  <2> QED BY <2>1, <2>2
<1>8. ASSUME Tt!Unaltered(t), NEW k \in sender PROVE k \in Seeds /\ t.publicKey = <<k>>
  <2>1. PICK u \in parsed : u.publicKey # <<>> /\ k = u.publicKey[1]
    BY DEF TxInv, ReceivedOK
  <2>2. t.publicKey # <<>> /\ k = t.publicKey[1]
    BY <1>7, <1>8, <2>1
  <2>3. PICK s \in Seeds : t.publicKey = <<s>>
    BY <1>2, <2>2 DEF Typed, Fields
  <2> QED BY <2>2, <2>3
<1>9. \A fee \in 0..MaxInteger : Tt!GetUpfrontCost(t, fee) <= t.gasLimit * t.maxFeePerGas + t.value
  <2>1. \A fee \in 0..MaxInteger : fee \in Nat
    OBVIOUS
  <2> QED BY <1>2, <2>1, CostIsBounded
<1> QED BY <1>1, <1>2, <1>6, <1>7, <1>8, <1>9 DEF Tt!ReceivedAsSent

-----------------------------------------------------------------------------
(* Hardforks.                                                                 *)

(* The greatest of a set is the one that is.                                  *)
LEMMA MaxIs ==
    ASSUME NEW S, S \subseteq Int, NEW m \in S, \A k \in S : k <= m
    PROVE  Cm!Max(S) = m
<1> DEFINE v == Cm!Max(S)
<1>1. \A k \in S : m >= k
  OBVIOUS
<1>2. v \in S /\ \A k \in S : v >= k
  BY <1>1 DEF Cm!Max
<1> HIDE DEF v
<1>3. v \in Int /\ m \in Int /\ v >= m /\ v <= m
  BY <1>2
<1>4. v = m
  BY <1>3
<1> QED BY <1>4 DEF v

(* So is the least, and there is one.                                         *)
LEMMA MinIs ==
    ASSUME NEW S, S \subseteq Nat, S # {}
    PROVE  Cm!Min(S) \in S /\ \A k \in S : Cm!Min(S) <= k
<1>1. \E m \in S : \A k \in S : m <= k
  BY LeastNumber
<1> QED BY <1>1 DEF Cm!Min

(* The scheduled hardforks hfs stand in the list forks at the positions `at'. *)
IsScheduled(h) == h.block # Cm!Null \/ h.time # Cm!Null

Schedule(forks, hfs, at) ==
    /\ forks \in Seq(Cm!HardforkConfig) /\ hfs \in Seq(Cm!HardforkConfig)
    /\ at \in [1..Len(hfs) -> 1..Len(forks)]
    /\ \A j, k \in 1..Len(hfs) : j < k => at[j] < at[k]
    /\ \A k \in 1..Len(hfs) : hfs[k] = forks[at[k]] /\ IsScheduled(hfs[k])
    /\ \A i \in 1..Len(forks) : IsScheduled(forks[i]) => \E k \in 1..Len(hfs) : at[k] = i

(* The filters of Common are those of Filters.                                *)
LEMMA PickedSame ==
    ASSUME NEW s, NEW S
    PROVE  Cm!Picked(s, S) = Picked(s, S)
<1>1. Cm!InOrder(Len(s), S) = InOrder(Len(s), S)
  BY DEF Cm!InOrder, InOrder
<1> QED BY <1>1 DEF Cm!Picked, Picked

(* Scheduled() is such a part of a list.                                      *)
LEMMA ScheduledIs ==
    ASSUME NEW forks \in Seq(Cm!HardforkConfig)
    PROVE  \E at : Schedule(forks, Cm!Scheduled(forks), at)
<1> DEFINE S == {i \in DOMAIN forks : forks[i].block # Cm!Null \/ forks[i].time # Cm!Null}
<1>1. PICK hfs : hfs = Picked(forks, S)
  OBVIOUS
<1>2. Cm!Scheduled(forks) = hfs
  BY <1>1, PickedSame DEF Cm!Scheduled
<1>3. \A i \in DOMAIN forks : i \in S <=> IsScheduled(forks[i])
  BY DEF IsScheduled
<1> HIDE DEF S
<1>4. PICK at : /\ ListsInOrder(at, S, Len(forks))
                /\ Picked(forks, S) \in Seq(Cm!HardforkConfig) /\ DOMAIN Picked(forks, S) = DOMAIN at
                /\ \A k \in DOMAIN at : Picked(forks, S)[k] = forks[at[k]]
  BY PickedKeeps
<1>5. /\ hfs \in Seq(Cm!HardforkConfig) /\ DOMAIN hfs = DOMAIN at
      /\ \A k \in DOMAIN at : hfs[k] = forks[at[k]]
  BY <1>1, <1>4
<1>6. /\ at \in Seq(1..Len(forks))
      /\ \A j, k \in DOMAIN at : j < k => at[j] < at[k]
      /\ \A k \in DOMAIN at : at[k] \in S
      /\ \A i \in 1..Len(forks) : i \in S => \E k \in DOMAIN at : at[k] = i
  BY <1>4 DEF ListsInOrder
<1>7. DOMAIN at = 1..Len(hfs) /\ DOMAIN forks = 1..Len(forks)
  BY <1>5
<1>8. at \in [1..Len(hfs) -> 1..Len(forks)]
  BY <1>6, <1>7
<1>9. \A k \in 1..Len(hfs) : hfs[k] = forks[at[k]] /\ IsScheduled(hfs[k])
  BY <1>3, <1>5, <1>6, <1>7, <1>8
<1>10. \A i \in 1..Len(forks) : IsScheduled(forks[i]) => \E k \in 1..Len(hfs) : at[k] = i
  BY <1>3, <1>6, <1>7
<1>11. \A j, k \in 1..Len(hfs) : j < k => at[j] < at[k]
  BY <1>6, <1>7
<1>12. Schedule(forks, hfs, at)
  BY <1>5, <1>8, <1>9, <1>10, <1>11 DEF Schedule
<1> QED BY <1>2, <1>12

(* The blocks B and times T of n hardforks in order, the first at block 0.    *)
Dated(n, B, T) ==
    /\ n \in Nat /\ n > 0 /\ B \in [1..n -> Int] /\ T \in [1..n -> Int] /\ B[1] = 0
    /\ \A i \in 1..n : /\ B[i] >= -1 /\ T[i] >= -1 /\ T[i] # 0
                       /\ B[i] = -1 <=> T[i] # -1
    /\ \A i, j \in 1..n : i < j => \/ B[j] = -1 /\ T[i] <= T[j]
                                   \/ B[i] # -1 /\ B[i] <= B[j]

(* An ordered list has such a schedule.                                       *)
LEMMA OrderedIsDated ==
    ASSUME NEW forks, Cm!Ordered(forks), NEW hfs, hfs = Cm!Scheduled(forks), NEW at, Schedule(forks, hfs, at)
    PROVE  \E B, T : /\ Dated(Len(hfs), B, T)
                     /\ \A i \in 1..Len(hfs) : hfs[i].block = B[i] /\ hfs[i].time = T[i]
<1> DEFINE B == [i \in 1..Len(hfs) |-> hfs[i].block]
           T == [i \in 1..Len(hfs) |-> hfs[i].time]
<1>1. /\ hfs \in Seq(Cm!HardforkConfig) /\ Len(hfs) \in Nat /\ DOMAIN hfs = 1..Len(hfs)
      /\ \A k \in 1..Len(hfs) : IsScheduled(hfs[k])
  BY DEF Schedule
<1>2. \A i \in 1..Len(hfs) : /\ hfs[i].block \in Nat \cup {-1} /\ hfs[i].time \in Nat \cup {-1}
                             /\ hfs[i].block # -1 \/ hfs[i].time # -1
  <2> SUFFICES ASSUME NEW i \in 1..Len(hfs)
               PROVE  /\ hfs[i].block \in Nat \cup {-1} /\ hfs[i].time \in Nat \cup {-1}
                      /\ hfs[i].block # -1 \/ hfs[i].time # -1
    OBVIOUS
  <2>1. PICK h \in Cm!HardforkConfig : h = hfs[i]
    BY <1>1
  <2>2. h.block \in Nat \cup {-1} /\ h.time \in Nat \cup {-1}
    BY DEF Cm!HardforkConfig, Cm!Null
  <2>3. h.block # -1 \/ h.time # -1
    BY <1>1, <2>1 DEF IsScheduled, Cm!Null
  <2> QED BY <2>1, <2>2, <2>3
<1>3. /\ hfs # <<>> /\ hfs[1].block = 0
      /\ \A i \in 1..Len(hfs) : (hfs[i].block = -1 \/ hfs[i].time = -1) /\ hfs[i].time # 0
      /\ \A i, j \in 1..Len(hfs) : i < j =>
            \/ hfs[j].block = -1 /\ hfs[i].time <= hfs[j].time
            \/ hfs[i].block # -1 /\ hfs[i].block <= hfs[j].block
  BY <1>1 DEF Cm!Ordered, Cm!Null
<1>4. Len(hfs) > 0
  BY <1>1, <1>3
<1>5. \A i \in 1..Len(hfs) : hfs[i].block = B[i] /\ hfs[i].time = T[i]
  OBVIOUS
<1>6. B \in [1..Len(hfs) -> Int] /\ T \in [1..Len(hfs) -> Int]
  BY <1>2
<1> HIDE DEF B, T
<1>7. 1 \in 1..Len(hfs)
  BY <1>1, <1>4
<1>8. \A i \in 1..Len(hfs) : B[i] \in Nat \cup {-1} /\ T[i] \in Nat \cup {-1} /\ (B[i] # -1 \/ T[i] # -1)
                             /\ (B[i] = -1 \/ T[i] = -1) /\ T[i] # 0
  BY <1>2, <1>3, <1>5
<1>9. \A i, j \in 1..Len(hfs) : i < j => \/ B[j] = -1 /\ T[i] <= T[j]
                                         \/ B[i] # -1 /\ B[i] <= B[j]
  BY <1>3, <1>5
<1>10. Dated(Len(hfs), B, T)
  BY <1>1, <1>3, <1>4, <1>5, <1>6, <1>7, <1>8, <1>9 DEF Dated
<1> QED BY <1>5, <1>10

(* Whether the i-th is reached.                                               *)
IsReached(B, T, blk, t, i) == (B[i] # -1 /\ B[i] <= blk) \/ (T[i] # -1 /\ t # -1 /\ T[i] <= t)

(* The names of the code of getHardforkByBlockNumber().                       *)
Later(n, B, T, blk, t) ==
    {i \in 1..n : (B[i] # -1 /\ B[i] > blk) \/ (t # -1 /\ T[i] # -1 /\ T[i] > t)}
FoundAt(n, later) == IF later = {} THEN n ELSE Cm!Min(later) - 1
Numbered(found, B) == {i \in 1..found : B[i] # -1}
StartAt(t, found, numbered) ==
    IF t # -1 THEN found ELSE IF numbered = {} THEN found + 1 ELSE Cm!Max(numbered)

(* The first is, and the later ones are later.                                *)
LEMMA DatedFacts ==
    ASSUME NEW n, NEW B, NEW T, Dated(n, B, T), NEW blk \in Nat, NEW t \in Int
    PROVE  /\ n \in Nat /\ 1 \in 1..n /\ IsReached(B, T, blk, t, 1)
           /\ \A i, j \in 1..n : i < j /\ B[j] # -1 => B[i] # -1 /\ B[i] <= B[j]
           /\ \A i \in 1..n : B[i] \in Int /\ T[i] \in Int
<1>1. n \in Nat /\ n > 0 /\ \A i \in 1..n : B[i] \in Int /\ T[i] \in Int
  BY DEF Dated
<1>2. 1 \in 1..n
  BY <1>1
<1>3. IsReached(B, T, blk, t, 1)
  BY <1>1, <1>2 DEF IsReached, Dated
<1>4. \A i, j \in 1..n : i < j /\ B[j] # -1 => B[i] # -1 /\ B[i] <= B[j]
  BY DEF Dated
<1> QED BY <1>1, <1>2, <1>3, <1>4

(* With a time: found is the one before the first that is not reached.        *)
LEMMA FoundWithTime ==
    ASSUME NEW n, NEW B, NEW T, Dated(n, B, T), NEW blk \in Nat, NEW t \in Nat,
           NEW later, later = Later(n, B, T, blk, t), NEW found, found = FoundAt(n, later)
    PROVE  /\ found \in 1..n
           /\ \A i \in 1..found : IsReached(B, T, blk, t, i)
           /\ found < n => ~IsReached(B, T, blk, t, found + 1)
           /\ \A i \in 1..n : i \in later <=> ~IsReached(B, T, blk, t, i)
<1>1. /\ n \in Nat /\ 1 \in 1..n /\ IsReached(B, T, blk, t, 1)
      /\ \A i \in 1..n : B[i] \in Int /\ T[i] \in Int
  BY DatedFacts
<1>2. /\ \A i \in 1..n : B[i] = -1 <=> T[i] # -1
      /\ later = {i \in 1..n : (B[i] # -1 /\ B[i] > blk) \/ (t # -1 /\ T[i] # -1 /\ T[i] > t)}
      /\ found = IF later = {} THEN n ELSE Cm!Min(later) - 1
  BY DEF Dated, Later, FoundAt
<1>3. \A i \in 1..n : i \in later <=> ~IsReached(B, T, blk, t, i)
  <2> SUFFICES ASSUME NEW i \in 1..n PROVE i \in later <=> ~IsReached(B, T, blk, t, i)
    OBVIOUS
  <2>1. i \in later <=> ((B[i] # -1 /\ B[i] > blk) \/ (T[i] # -1 /\ T[i] > t))
    BY <1>2
  <2>2. IsReached(B, T, blk, t, i) <=> ((B[i] # -1 /\ B[i] <= blk) \/ (T[i] # -1 /\ T[i] <= t))
    BY DEF IsReached
  <2>3. B[i] \in Int /\ T[i] \in Int
    BY <1>1
  <2> QED BY <1>2, <2>1, <2>2, <2>3
<1>4. CASE later = {}
  <2>1. found = n
    BY <1>2, <1>4
  <2>2. \A i \in 1..n : IsReached(B, T, blk, t, i)
    BY <1>3, <1>4
  <2>3. found \in 1..n /\ ~(found < n)
    BY <1>1, <2>1
  <2> QED BY <1>3, <2>1, <2>2, <2>3
<1>5. CASE later # {}
  <2>1. later \subseteq 1..n /\ later \subseteq Nat
    BY <1>1, <1>2
  <2>2. Cm!Min(later) \in later /\ \A k \in later : Cm!Min(later) <= k
    BY <1>5, <2>1, MinIs
  <2>3. PICK m \in later : m = Cm!Min(later)
    BY <2>2
  <2>4. found = m - 1 /\ m \in 1..n /\ m # 1 /\ \A k \in later : m <= k
    BY <1>1, <1>2, <1>3, <1>5, <2>1, <2>2, <2>3
  <2>5. found \in 1..n /\ found + 1 = m
    BY <1>1, <2>4
  <2>6. \A i \in 1..found : i \in 1..n /\ i \notin later
    BY <1>1, <2>4, <2>5
  <2>7. \A i \in 1..found : IsReached(B, T, blk, t, i)
    BY <1>3, <2>6
  <2>8. found + 1 \in 1..n /\ found + 1 \in later
    BY <2>3, <2>4, <2>5
  <2>9. ~IsReached(B, T, blk, t, found + 1)
    BY <1>3, <2>8
  <2> QED BY <1>3, <2>5, <2>7, <2>9
<1> QED BY <1>3, <1>4, <1>5

(* Without a time: the last one with a block up to the one found is the last  *)
(* one that is reached.                                                       *)
LEMMA FoundWithoutTime ==
    ASSUME NEW n, NEW B, NEW T, Dated(n, B, T), NEW blk \in Nat,
           NEW later, later = Later(n, B, T, blk, -1), NEW found, found = FoundAt(n, later),
           NEW numbered, numbered = Numbered(found, B)
    PROVE  /\ found \in 1..n /\ numbered # {}
           /\ \E k \in 1..n : /\ Cm!Max(numbered) = k
                              /\ \A i \in 1..n : i <= k <=> B[i] # -1 /\ B[i] <= blk
<1>1. /\ n \in Nat /\ 1 \in 1..n /\ B[1] = 0
      /\ \A i \in 1..n : B[i] \in Int
      /\ \A i, j \in 1..n : i < j /\ B[j] # -1 => B[i] # -1 /\ B[i] <= B[j]
  BY DatedFacts DEF Dated
<1>2. /\ \A i : i \in later <=> i \in 1..n /\ B[i] # -1 /\ B[i] > blk
      /\ found = IF later = {} THEN n ELSE Cm!Min(later) - 1
      /\ \A i : i \in numbered <=> i \in 1..found /\ B[i] # -1
  BY DEF Later, FoundAt, Numbered
<1>3. found \in 1..n /\ \A i \in 1..found : i \in 1..n /\ i \notin later
  <2>1. CASE later = {}
    BY <1>1, <1>2, <2>1
  <2>2. CASE later # {}
    <3>1. later \subseteq Nat
      BY <1>1, <1>2
    <3>2. PICK m \in later : m = Cm!Min(later) /\ \A k \in later : m <= k
      BY <2>2, <3>1, MinIs
    <3>3. found = m - 1 /\ m \in 1..n
      BY <1>2, <2>2, <3>2
    <3>4. m # 1
      BY <1>1, <1>2, <3>2
    <3> QED BY <1>1, <3>2, <3>3, <3>4
  <2> QED BY <2>1, <2>2
<1>4. numbered \subseteq 0..n /\ 1 \in numbered
  BY <1>1, <1>2, <1>3
<1>5. PICK k \in numbered : \A i \in numbered : i <= k
  BY <1>1, <1>4, GreatestNumber
<1>6. Cm!Max(numbered) = k
  <2>1. numbered \subseteq Int
    BY <1>1, <1>4
  <2> QED BY <1>5, <2>1, MaxIs
<1>7. k \in 1..n /\ k \in 1..found /\ B[k] # -1 /\ B[k] <= blk
  BY <1>1, <1>2, <1>3, <1>5
<1>8. ASSUME NEW i \in 1..n, i <= k PROVE B[i] # -1 /\ B[i] <= blk
  <2>1. i = k \/ i < k
    BY <1>1, <1>7, <1>8
  <2>2. ASSUME i < k PROVE B[i] # -1 /\ B[i] <= B[k]
    BY <1>1, <1>7, <2>2
  <2>3. B[i] \in Int /\ B[k] \in Int
    BY <1>1, <1>7
  <2> QED BY <1>7, <2>1, <2>2, <2>3
<1>9. ASSUME NEW i \in 1..n, B[i] # -1, B[i] <= blk PROVE i <= k
  <2>1. CASE i <= found
    BY <1>1, <1>2, <1>3, <1>5, <1>9, <2>1
  <2>2. CASE ~(i <= found)
    <3>1. later # {} /\ found = Cm!Min(later) - 1
      BY <1>1, <1>2, <2>2
    <3>2. later \subseteq Nat
      BY <1>1, <1>2
    <3>3. PICK m \in later : m = Cm!Min(later) /\ \A j \in later : m <= j
      BY <3>1, <3>2, MinIs
    <3>4. m \in 1..n /\ B[m] # -1 /\ B[m] > blk /\ m <= i
      BY <1>2, <1>3, <2>2, <3>1, <3>3
    <3>5. m = i \/ B[m] <= B[i]
      BY <1>1, <1>9, <3>4
    <3>6. B[m] \in Int /\ B[i] \in Int
      BY <1>1, <3>4
    <3> QED BY <1>9, <3>4, <3>5, <3>6
  <2> QED BY <2>1, <2>2
<1> QED BY <1>3, <1>4, <1>6, <1>7, <1>8, <1>9

(* The hardfork that is found for a block and a time is the k-th scheduled    *)
(* one.                                                                       *)
Finds(forks, hfs, B, T, blk, t, k) ==
    /\ k \in 1..Len(hfs)
    /\ \A i \in 1..k : IsReached(B, T, blk, t, i)
    /\ (k < Len(hfs) => ~IsReached(B, T, blk, t, k + 1))
    /\ \/ Cm!GetHardforkByBlockNumber(forks, blk, t) = hfs[k].name
       \/ /\ t # -1
          /\ Cm!GetHardforkByBlockNumber(forks, blk, t) = Cm!Refusal
          /\ k < Len(hfs) /\ \E i \in 1..Len(hfs) : k + 1 < i /\ IsReached(B, T, blk, t, i)

(* The scheduled hardforks of a list and their dates.                         *)
HasDates(forks, hfs, B, T) ==
    /\ hfs = Cm!Scheduled(forks) /\ hfs \in Seq(Cm!HardforkConfig)
    /\ Dated(Len(hfs), B, T)
    /\ \A i \in 1..Len(hfs) : hfs[i].block = B[i] /\ hfs[i].time = T[i]

(* The one at `start' is the answer, unless the time contradicts another.     *)
AnswersAt(forks, hfs, T, blk, t, start) ==
    Cm!GetHardforkByBlockNumber(forks, blk, t) =
       IF /\ t > 0
          /\ \/ \E i \in 1..(start - 1) : T[i] > t
             \/ \E i \in (start + 1)..Len(hfs) : T[i] # -1 /\ T[i] < t
       THEN Cm!Refusal ELSE hfs[start].name

(* getHardforkByBlockNumber() of an ordered list, with the names of its code. *)
LEMMA GetHardforkIs ==
    ASSUME NEW forks, NEW hfs, NEW B, NEW T, HasDates(forks, hfs, B, T),
           NEW n, n = Len(hfs), NEW blk \in Nat, NEW t \in Int, NEW later, later = Later(n, B, T, blk, t),
           NEW found, found = FoundAt(n, later), found \in 1..n,
           NEW numbered, numbered = Numbered(found, B), NEW start, start = StartAt(t, found, numbered),
           start \in 1..n, start < n => ~(B[start] = B[start + 1] /\ T[start] = T[start + 1])
    PROVE  AnswersAt(forks, hfs, T, blk, t, start)
<1>0. /\ hfs = Cm!Scheduled(forks) /\ hfs \in Seq(Cm!HardforkConfig) /\ Dated(n, B, T)
      /\ \A i \in 1..n : hfs[i].block = B[i] /\ hfs[i].time = T[i]
  BY DEF HasDates
<1> DEFINE H == Cm!Scheduled(forks)
           L == {i \in DOMAIN H :
                    \/ H[i].block # Cm!Null /\ H[i].block > blk
                    \/ t # Cm!Null /\ H[i].time # Cm!Null /\ H[i].time > t}
           F == IF L = {} THEN Len(H) ELSE Cm!Min(L) - 1
           N == {i \in 1..F : H[i].block # Cm!Null}
           S == IF t # Cm!Null THEN F ELSE IF N = {} THEN F + 1 ELSE Cm!Max(N)
           chain == {j \in S..Len(H) : \A i \in S..j - 1 : Cm!SameSchedule(H[i], H[i + 1])}
           last == Cm!Max(chain)
           over == \E i \in 1..S - 1 : H[i].time > t
           missed == \E i \in last + 1..Len(H) : H[i].time # Cm!Null /\ H[i].time < t
<1>1. Cm!GetHardforkByBlockNumber(forks, blk, t) =
         IF \/ F = 0 /\ L # {}
            \/ S \notin DOMAIN H
            \/ t > 0 /\ (over \/ missed)
         THEN Cm!Refusal ELSE H[last].name
  BY DEF Cm!GetHardforkByBlockNumber
<1>2. /\ H = hfs /\ n \in Nat /\ DOMAIN hfs = 1..n /\ 1..found \subseteq 1..n /\ Cm!Null = -1
      /\ \A i \in 1..n : B[i] \in Int /\ T[i] \in Int
  BY <1>0, DatedFacts DEF Cm!Null
<1> HIDE DEF H
<1>3. L = later
  <2>1. ASSUME NEW i \in 1..n PROVE i \in L <=> i \in later
    <3>1. H[i].block = B[i] /\ H[i].time = T[i] /\ i \in DOMAIN H
      BY <1>0, <1>2
    <3>2. i \in L <=> (B[i] # -1 /\ B[i] > blk) \/ (t # -1 /\ T[i] # -1 /\ T[i] > t)
      BY <1>2, <3>1
    <3> QED BY <3>2 DEF Later
  <2>2. L \subseteq 1..n /\ later \subseteq 1..n
    BY <1>2 DEF Later
  <2> HIDE DEF L
  <2> QED BY <2>1, <2>2
<1> HIDE DEF L
<1>4. F = found
  BY <1>2, <1>3 DEF FoundAt
<1> HIDE DEF F
<1>5. N = numbered
  <2>1. \A i \in 1..found : i \in N <=> i \in numbered
    BY <1>0, <1>2, <1>4 DEF Numbered
  <2>2. N \subseteq 1..found /\ numbered \subseteq 1..found
    BY <1>4 DEF Numbered
  <2> HIDE DEF N
  <2> QED BY <2>1, <2>2
<1> HIDE DEF N
<1>6. S = start
  BY <1>2, <1>4, <1>5 DEF StartAt
<1> HIDE DEF S
<1>7. chain = {start}
  <2>1. start \in chain
    BY <1>2, <1>6
  <2>2. ASSUME NEW j \in chain, j # start PROVE FALSE
    <3>1. j \in start..n /\ start < j /\ start \in start..(j - 1) /\ start < n /\ start + 1 \in 1..n
      BY <1>2, <1>6, <2>2
    <3>2. Cm!SameSchedule(hfs[start], hfs[start + 1])
      BY <1>2, <1>6, <2>2, <3>1
    <3>3. B[start] = B[start + 1] /\ T[start] = T[start + 1]
      BY <1>0, <1>2, <3>1, <3>2 DEF Cm!SameSchedule
    <3> QED BY <3>1, <3>3
  <2> QED BY <2>1, <2>2
<1>8. last = start
  <2>1. PICK one : one = {start}
    OBVIOUS
  <2>2. one \subseteq Int /\ start \in one /\ \A k \in one : k <= start
    BY <1>2, <2>1
  <2>3. Cm!Max(one) = start
    BY <2>2, MaxIs
  <2> QED BY <1>7, <2>1, <2>3
<1> HIDE DEF chain, last
<1>9. over <=> \E i \in 1..(start - 1) : T[i] > t
  <2>1. \A i \in 1..(start - 1) : H[i].time = T[i]
    BY <1>0, <1>2
  <2> QED BY <1>6, <2>1
<1>10. missed <=> \E i \in (start + 1)..n : T[i] # -1 /\ T[i] < t
  <2>1. \A i \in (start + 1)..n : H[i].time = T[i]
    BY <1>0, <1>2
  <2>2. Len(H) = n /\ Cm!Null = -1
    BY <1>2
  <2>3. missed <=> \E i \in (start + 1)..n : H[i].time # -1 /\ H[i].time < t
    BY <1>8, <2>2
  <2> HIDE DEF missed
  <2> QED BY <2>1, <2>3
<1> HIDE DEF over, missed
<1>11. F # 0 /\ S \in DOMAIN H /\ H[last] = hfs[start]
  BY <1>2, <1>4, <1>6, <1>8
<1>12. Cm!GetHardforkByBlockNumber(forks, blk, t) =
          IF t > 0 /\ (over \/ missed) THEN Cm!Refusal ELSE hfs[start].name
  BY <1>1, <1>11
<1> QED BY <1>9, <1>10, <1>12 DEF AnswersAt

(* So it finds one, with a time,                                              *)
LEMMA FindsWithTime ==
    ASSUME NEW forks, NEW hfs, NEW B, NEW T, HasDates(forks, hfs, B, T), NEW blk \in Nat, NEW t \in Nat
    PROVE  \E k : Finds(forks, hfs, B, T, blk, t, k)
<1>1. PICK n : n = Len(hfs)
  OBVIOUS
<1>2. PICK later : later = Later(n, B, T, blk, t)
  OBVIOUS
<1>3. PICK found : found = FoundAt(n, later)
  OBVIOUS
<1>4. PICK numbered : numbered = Numbered(found, B)
  OBVIOUS
<1>5. Dated(n, B, T)
  BY <1>1 DEF HasDates
<1>6. /\ found \in 1..n
      /\ \A i \in 1..found : IsReached(B, T, blk, t, i)
      /\ (found < n => ~IsReached(B, T, blk, t, found + 1))
  <2>1. found \in 1..n
    BY ONLY <1>2, <1>3, <1>5, blk \in Nat, t \in Nat, FoundWithTime
  <2>2. \A i \in 1..found : IsReached(B, T, blk, t, i)
    BY ONLY <1>2, <1>3, <1>5, blk \in Nat, t \in Nat, FoundWithTime
  <2>3. found < n => ~IsReached(B, T, blk, t, found + 1)
    BY ONLY <1>2, <1>3, <1>5, blk \in Nat, t \in Nat, FoundWithTime
  <2> QED BY <2>1, <2>2, <2>3
<1>7. n \in Nat /\ \A i \in 1..n : B[i] \in Int /\ T[i] \in Int
  BY <1>5, DatedFacts
<1>8. found = StartAt(t, found, numbered)
  BY DEF StartAt
<1>9. found < n => ~(B[found] = B[found + 1] /\ T[found] = T[found + 1])
  <2> SUFFICES ASSUME found < n, B[found] = B[found + 1], T[found] = T[found + 1] PROVE FALSE
    OBVIOUS
  <2>1. IsReached(B, T, blk, t, found) /\ ~IsReached(B, T, blk, t, found + 1)
    BY <1>6, <1>7
  <2> QED BY <2>1 DEF IsReached
<1>10. AnswersAt(forks, hfs, T, blk, t, found)
  <2>1. found \in 1..n
    BY <1>6
  <2>2. t \in Int
    OBVIOUS
  <2>3. HasDates(forks, hfs, B, T)
    OBVIOUS
  <2> QED BY ONLY <1>1, <1>2, <1>3, <1>4, <1>8, <1>9, <2>1, <2>2, <2>3, blk \in Nat, GetHardforkIs
<1>11. \A i \in 1..(found - 1) : ~(T[i] > t)
  <2> SUFFICES ASSUME NEW i \in 1..(found - 1), T[i] > t PROVE FALSE
    OBVIOUS
  <2>1. i \in 1..found /\ i \in 1..n /\ T[i] \in Int
    BY <1>6, <1>7
  <2>2. IsReached(B, T, blk, t, i)
    BY <1>6, <2>1
  <2>3. T[i] # -1 => B[i] = -1
    BY <1>5, <2>1 DEF Dated
  <2> QED BY <2>1, <2>2, <2>3 DEF IsReached
<1>12. CASE \E i \in (found + 1)..n : T[i] # -1 /\ T[i] < t
  <2>1. PICK i \in (found + 1)..n : T[i] # -1 /\ T[i] < t
    BY <1>12
  <2>2. i \in 1..n /\ found < n /\ T[i] \in Int
    BY <1>6, <1>7
  <2>3. IsReached(B, T, blk, t, i)
    BY <2>1, <2>2 DEF IsReached
  <2>4. i # found + 1
    BY <1>6, <2>2, <2>3
  <2>5. found + 1 < i
    BY <1>6, <1>7, <2>2, <2>4
  <2>6. t # -1
    OBVIOUS
  <2>7. Cm!GetHardforkByBlockNumber(forks, blk, t) \in {hfs[found].name, Cm!Refusal}
    BY <1>10 DEF AnswersAt
  <2> QED BY <1>1, <1>6, <2>2, <2>3, <2>5, <2>6, <2>7 DEF Finds
<1>13. CASE ~ \E i \in (found + 1)..n : T[i] # -1 /\ T[i] < t
  <2>1. Cm!GetHardforkByBlockNumber(forks, blk, t) = hfs[found].name
    BY <1>1, <1>10, <1>11, <1>13 DEF AnswersAt
  <2> QED BY <1>1, <1>6, <2>1 DEF Finds
<1> QED BY <1>12, <1>13

(* Without a time the k-th is found, the last one whose block is reached.     *)
LastReached(forks, hfs, B, blk, k) ==
    /\ k \in 1..Len(hfs)
    /\ Cm!GetHardforkByBlockNumber(forks, blk, -1) = hfs[k].name
    /\ \A i \in 1..Len(hfs) : i <= k <=> B[i] # -1 /\ B[i] <= blk

(* and there is one.                                                          *)
LEMMA FindsWithoutTime ==
    ASSUME NEW forks, NEW hfs, NEW B, NEW T, HasDates(forks, hfs, B, T), NEW blk \in Nat
    PROVE  \E k : LastReached(forks, hfs, B, blk, k)
<1>1. PICK n : n = Len(hfs)
  OBVIOUS
<1>2. PICK later : later = Later(n, B, T, blk, -1)
  OBVIOUS
<1>3. PICK found : found = FoundAt(n, later)
  OBVIOUS
<1>4. PICK numbered : numbered = Numbered(found, B)
  OBVIOUS
<1>5. Dated(n, B, T)
  BY <1>1 DEF HasDates
<1>6. /\ found \in 1..n /\ numbered # {}
      /\ \E k \in 1..n : /\ Cm!Max(numbered) = k
                         /\ \A i \in 1..n : i <= k <=> B[i] # -1 /\ B[i] <= blk
  BY ONLY <1>2, <1>3, <1>4, <1>5, blk \in Nat, FoundWithoutTime
<1>7. PICK k \in 1..n : /\ Cm!Max(numbered) = k
                        /\ \A i \in 1..n : i <= k <=> B[i] # -1 /\ B[i] <= blk
  BY <1>6
<1>8. n \in Nat /\ \A i \in 1..n : B[i] \in Int /\ T[i] \in Int
  BY <1>5, DatedFacts
<1>9. k = StartAt(-1, found, numbered)
  BY <1>6, <1>7 DEF StartAt
<1>10. k < n => ~(B[k] = B[k + 1] /\ T[k] = T[k + 1])
  <2> SUFFICES ASSUME k < n, B[k] = B[k + 1] PROVE FALSE
    OBVIOUS
  <2>1. k \in 1..n /\ k + 1 \in 1..n /\ k <= k /\ ~(k + 1 <= k)
    BY <1>8
  <2>2. B[k] # -1 /\ B[k] <= blk /\ ~(B[k + 1] # -1 /\ B[k + 1] <= blk)
    BY <1>7, <2>1
  <2> QED BY <2>2
<1>11. AnswersAt(forks, hfs, T, blk, -1, k)
  <2>1. found \in 1..n /\ k \in 1..n
    BY <1>6
  <2>2. PICK t \in Int : t = -1
    OBVIOUS
  <2>3. later = Later(n, B, T, blk, t) /\ k = StartAt(t, found, numbered)
    BY <1>2, <1>9, <2>2
  <2>4. HasDates(forks, hfs, B, T)
    OBVIOUS
  <2>5. AnswersAt(forks, hfs, T, blk, t, k)
    BY ONLY <1>1, <1>3, <1>4, <1>10, <2>1, <2>3, <2>4, blk \in Nat, t \in Int, GetHardforkIs
  <2> QED BY <2>2, <2>5
<1>12. Cm!GetHardforkByBlockNumber(forks, blk, -1) = hfs[k].name
  BY <1>11 DEF AnswersAt
<1> QED BY <1>1, <1>7, <1>12 DEF LastReached

(* An ordered list, its schedule and the dates of it.                         *)
Scheduling(forks, hfs, at, B, T) ==
    /\ Schedule(forks, hfs, at) /\ hfs = Cm!Scheduled(forks)
    /\ Dated(Len(hfs), B, T)
    /\ \A i \in 1..Len(hfs) : hfs[i].block = B[i] /\ hfs[i].time = T[i]
    /\ \A i, j \in 1..Len(forks) : forks[i].name = forks[j].name => i = j

(* Every ordered list has them.                                               *)
LEMMA OrderedScheduling ==
    ASSUME NEW forks \in Seq(Cm!HardforkConfig), Cm!Ordered(forks)
    PROVE  \E at, B, T : Scheduling(forks, Cm!Scheduled(forks), at, B, T)
<1>1. PICK hfs : hfs = Cm!Scheduled(forks)
  OBVIOUS
<1>2. PICK at : Schedule(forks, hfs, at)
  BY <1>1, ScheduledIs
<1>3. PICK B, T : Dated(Len(hfs), B, T) /\ \A i \in 1..Len(hfs) : hfs[i].block = B[i] /\ hfs[i].time = T[i]
  BY <1>1, <1>2, OrderedIsDated
<1>4. DOMAIN forks = 1..Len(forks)
  OBVIOUS
<1>5. \A i, j \in 1..Len(forks) : forks[i].name = forks[j].name => i = j
  BY <1>4 DEF Cm!Ordered
<1>6. Scheduling(forks, hfs, at, B, T)
  BY <1>1, <1>2, <1>3, <1>5 DEF Scheduling
<1> QED BY <1>1, <1>6

(* and the dates of the schedule.                                             *)
LEMMA SchedulingDates ==
    ASSUME NEW forks, NEW hfs, NEW at, NEW B, NEW T, Scheduling(forks, hfs, at, B, T)
    PROVE  HasDates(forks, hfs, B, T)
BY DEF Scheduling, Schedule, HasDates

(* The hardfork found for a block, with the time or without, is found.        *)
LEMMA FindsSome ==
    ASSUME NEW forks, NEW hfs, NEW at, NEW B, NEW T, Scheduling(forks, hfs, at, B, T),
           NEW blk \in Nat, NEW t \in Nat \cup {-1}
    PROVE  \E k : Finds(forks, hfs, B, T, blk, t, k)
<1>1. HasDates(forks, hfs, B, T)
  BY SchedulingDates
<1>2. CASE t \in Nat
  BY <1>1, <1>2, FindsWithTime
<1>3. CASE t = -1
  <2>0. PICK k : LastReached(forks, hfs, B, blk, k)
    BY <1>1, FindsWithoutTime
  <2>1. /\ k \in 1..Len(hfs) /\ Cm!GetHardforkByBlockNumber(forks, blk, -1) = hfs[k].name
        /\ \A i \in 1..Len(hfs) : i <= k <=> B[i] # -1 /\ B[i] <= blk
    BY <2>0 DEF LastReached
  <2>2. \A i \in 1..Len(hfs) : i <= k <=> IsReached(B, T, blk, t, i)
    BY <1>3, <2>1 DEF IsReached
  <2>3. Len(hfs) \in Nat
    BY <1>1 DEF HasDates
  <2>4. \A i \in 1..k : IsReached(B, T, blk, t, i)
    BY <2>1, <2>2, <2>3
  <2>5. k < Len(hfs) => ~IsReached(B, T, blk, t, k + 1)
    BY <2>1, <2>2, <2>3
  <2>6. Cm!GetHardforkByBlockNumber(forks, blk, t) = hfs[k].name
    BY <1>3, <2>1
  <2> QED BY <2>1, <2>4, <2>5, <2>6 DEF Finds
<1> QED BY <1>2, <1>3

(* So what Common finds for a block and a time is reached.                    *)
LEMMA FoundReached ==
    ASSUME NEW forks \in Seq(Cm!HardforkConfig), Cm!Ordered(forks), NEW blk \in Nat, NEW t \in Nat \cup {-1}
    PROVE  Cm!FoundIsReached(forks, blk, t)
<1>1. PICK hfs : hfs = Cm!Scheduled(forks)
  OBVIOUS
<1>2. PICK at, B, T : Scheduling(forks, hfs, at, B, T)
  BY <1>1, OrderedScheduling
<1>3. PICK k : Finds(forks, hfs, B, T, blk, t, k)
  BY <1>2, FindsSome
<1>4. PICK name : name = Cm!GetHardforkByBlockNumber(forks, blk, t)
  OBVIOUS
<1>5. /\ Len(hfs) \in Nat /\ DOMAIN hfs = 1..Len(hfs)
      /\ \A i \in 1..Len(hfs) : hfs[i].block = B[i] /\ hfs[i].time = T[i]
  BY <1>2 DEF Scheduling, Schedule
<1>6. \A i \in 1..Len(hfs) : Cm!Reached(hfs[i], blk, t) <=> IsReached(B, T, blk, t, i)
  BY <1>5 DEF Cm!Reached, IsReached, Cm!Null
<1> DEFINE prefix == {i \in DOMAIN hfs : \A j \in 1..i : Cm!Reached(hfs[j], blk, t)}
<1>7. /\ k \in 1..Len(hfs)
      /\ \A i \in 1..k : IsReached(B, T, blk, t, i)
      /\ (k < Len(hfs) => ~IsReached(B, T, blk, t, k + 1))
  BY <1>3 DEF Finds
<1>8. k \in prefix
  BY <1>5, <1>6, <1>7
<1>9. ASSUME NEW i \in prefix PROVE i <= k
  <2>1. i \in 1..Len(hfs) /\ \A j \in 1..i : Cm!Reached(hfs[j], blk, t)
    BY <1>5
  <2>2. ASSUME ~(i <= k) PROVE FALSE
    <3>1. k + 1 \in 1..i /\ k + 1 \in 1..Len(hfs) /\ k < Len(hfs)
      BY <1>5, <1>7, <2>1, <2>2
    <3>2. Cm!Reached(hfs[k + 1], blk, t)
      BY <2>1, <3>1
    <3> QED BY <1>6, <1>7, <3>1, <3>2
  <2> QED BY <2>2
<1>10. prefix \subseteq Int
  BY <1>5
<1>11. Cm!Max(prefix) = k
  <2> HIDE DEF prefix
  <2> QED BY <1>8, <1>9, <1>10, MaxIs
<1>12. Cm!FoundIsReached(forks, blk, t) <=>
          \/ name = hfs[Cm!Max(prefix)].name
          \/ /\ name = Cm!Refusal
             /\ \E i, j \in DOMAIN hfs : i < j /\ ~Cm!Reached(hfs[i], blk, t) /\ Cm!Reached(hfs[j], blk, t)
  BY <1>1, <1>4 DEF Cm!FoundIsReached
<1> HIDE DEF prefix
<1>13. CASE name = hfs[k].name
  BY <1>11, <1>12, <1>13
<1>14. CASE ~(name = hfs[k].name)
  <2>1. /\ name = Cm!Refusal /\ k < Len(hfs)
        /\ \E i \in 1..Len(hfs) : k + 1 < i /\ IsReached(B, T, blk, t, i)
    BY <1>3, <1>4, <1>14 DEF Finds
  <2>2. PICK j \in 1..Len(hfs) : k + 1 < j /\ IsReached(B, T, blk, t, j)
    BY <2>1
  <2>3. k + 1 \in 1..Len(hfs) /\ ~IsReached(B, T, blk, t, k + 1)
    BY <1>5, <1>7, <2>1
  <2>4. /\ k + 1 \in DOMAIN hfs /\ j \in DOMAIN hfs /\ k + 1 < j
        /\ ~Cm!Reached(hfs[k + 1], blk, t) /\ Cm!Reached(hfs[j], blk, t)
    BY <1>5, <1>6, <2>2, <2>3
  <2>5. \E i, m \in DOMAIN hfs : i < m /\ ~Cm!Reached(hfs[i], blk, t) /\ Cm!Reached(hfs[m], blk, t)
    BY <2>4
  <2> QED BY <1>12, <2>1, <2>5
<1> QED BY <1>13, <1>14

(* A hardfork h of a list, at position p, is the one of its name.             *)
IsNamed(forks, h, p, block) ==
    /\ Cm!Positions(forks, h.name) = {p} /\ p \in Int /\ Cm!Min({p}) = p /\ Cm!Max({p}) = p
    /\ Cm!GetHardfork(forks, h.name) = h
    /\ Cm!HardforkBlock(forks, h.name) = block

(* So are the scheduled ones of an ordered list.                              *)
LEMMA NamedAt ==
    ASSUME NEW forks, NEW hfs, NEW at, NEW B, NEW T, Scheduling(forks, hfs, at, B, T),
           NEW k \in 1..Len(hfs)
    PROVE  IsNamed(forks, hfs[k], at[k], B[k])
<1>1. /\ DOMAIN forks = 1..Len(forks) /\ Len(forks) \in Nat
      /\ at[k] \in 1..Len(forks) /\ hfs[k] = forks[at[k]] /\ hfs[k].block = B[k]
      /\ \A i, j \in 1..Len(forks) : forks[i].name = forks[j].name => i = j
  BY DEF Scheduling, Schedule
<1>2. Cm!Positions(forks, hfs[k].name) = {at[k]}
  BY <1>1 DEF Cm!Positions
<1>3. at[k] \in Int
  BY <1>1
<1>4. PICK p : p = at[k]
  OBVIOUS
<1>5. PICK one : one = {p}
  OBVIOUS
<1>6. p \in Nat /\ one \subseteq Nat /\ one \subseteq Int /\ p \in one /\ one # {} /\ \A i \in one : i <= p
  BY <1>1, <1>4, <1>5
<1>7. Cm!Max(one) = p
  BY <1>6, MaxIs
<1>8. Cm!Min(one) = p
  BY <1>5, <1>6, MinIs
<1>9. Cm!GetHardfork(forks, hfs[k].name) = hfs[k]
  BY <1>1, <1>2, <1>4, <1>5, <1>8 DEF Cm!GetHardfork
<1>10. Cm!HardforkBlock(forks, hfs[k].name) = B[k]
  BY <1>1, <1>2, <1>9 DEF Cm!HardforkBlock
<1> QED BY <1>2, <1>3, <1>4, <1>5, <1>7, <1>8, <1>9, <1>10 DEF IsNamed

(* Of two scheduled hardforks the later one stands later.                     *)
LEMMA GteIs ==
    ASSUME NEW forks, NEW hfs, NEW at, NEW B, NEW T, Scheduling(forks, hfs, at, B, T),
           NEW k \in 1..Len(hfs), NEW m \in 1..Len(hfs)
    PROVE  Cm!HardforkGteHardfork(forks, hfs[k].name, hfs[m].name) <=> k >= m
<1>1. /\ Cm!Positions(forks, hfs[k].name) = {at[k]} /\ at[k] \in Int /\ Cm!Max({at[k]}) = at[k]
      /\ Cm!Positions(forks, hfs[m].name) = {at[m]} /\ at[m] \in Int /\ Cm!Max({at[m]}) = at[m]
  <2>1. IsNamed(forks, hfs[k], at[k], B[k])
    BY NamedAt
  <2>2. IsNamed(forks, hfs[m], at[m], B[m])
    BY NamedAt
  <2> QED BY <2>1, <2>2 DEF IsNamed
<1>2. \A i, j \in 1..Len(hfs) : i < j => at[i] < at[j]
  BY DEF Scheduling, Schedule
<1>3. Cm!HardforkGteHardfork(forks, hfs[k].name, hfs[m].name) <=> at[k] >= at[m]
  BY <1>1 DEF Cm!HardforkGteHardfork
<1>4. k \in Int /\ m \in Int
  OBVIOUS
<1>5. CASE k = m
  BY <1>1, <1>3, <1>4, <1>5
<1>6. CASE k < m
  BY <1>1, <1>2, <1>3, <1>4, <1>6
<1>7. CASE m < k
  BY <1>1, <1>2, <1>3, <1>4, <1>7
<1> QED BY <1>4, <1>5, <1>6, <1>7

(* The hardforks active on a block are those up to the one found.             *)
LEMMA ActiveOnBlock ==
    ASSUME NEW forks \in Seq(Cm!HardforkConfig), Cm!Ordered(forks), NEW blk \in Nat
    PROVE  Cm!ActiveUpToFound(forks, blk)
<1>1. PICK hfs : hfs = Cm!Scheduled(forks)
  OBVIOUS
<1>2. PICK at, B, T : Scheduling(forks, hfs, at, B, T)
  BY <1>1, OrderedScheduling
<1>3. PICK k \in 1..Len(hfs) : /\ Cm!GetHardforkByBlockNumber(forks, blk, -1) = hfs[k].name
                               /\ \A i \in 1..Len(hfs) : i <= k <=> B[i] # -1 /\ B[i] <= blk
  <2>1. HasDates(forks, hfs, B, T)
    BY <1>2, SchedulingDates
  <2>2. \E k : LastReached(forks, hfs, B, blk, k)
    BY <2>1, FindsWithoutTime
  <2> QED BY <2>2 DEF LastReached
<1> SUFFICES ASSUME NEW h \in Cm!ToSet(hfs)
             PROVE  Cm!HardforkIsActiveOnBlock(forks, h.name, blk) <=>
                       /\ h.block > 0
                       /\ Cm!HardforkGteHardfork(forks, Cm!GetHardforkByBlockNumber(forks, blk, Cm!Null), h.name)
  BY <1>1 DEF Cm!ActiveUpToFound
<1>4. /\ Len(hfs) \in Nat /\ DOMAIN hfs = 1..Len(hfs)
      /\ \A i \in 1..Len(hfs) : hfs[i].block = B[i] /\ B[i] \in Int /\ B[i] >= -1
  BY <1>2 DEF Scheduling, Schedule, Dated
<1>5. PICK m \in 1..Len(hfs) : h = hfs[m]
  BY <1>4 DEF Cm!ToSet
<1>6. Cm!HardforkBlock(forks, h.name) = B[m]
  <2>1. IsNamed(forks, hfs[m], at[m], B[m])
    BY <1>2, NamedAt
  <2> QED BY <1>5, <2>1 DEF IsNamed
<1>7. Cm!HardforkIsActiveOnBlock(forks, h.name, blk) <=> B[m] # -1 /\ B[m] # 0 /\ blk >= B[m]
  BY <1>6 DEF Cm!HardforkIsActiveOnBlock, Cm!Null
<1>8. Cm!HardforkGteHardfork(forks, Cm!GetHardforkByBlockNumber(forks, blk, Cm!Null), h.name) <=> k >= m
  BY <1>2, <1>3, <1>5, GteIs DEF Cm!Null
<1>9. k >= m <=> B[m] # -1 /\ B[m] <= blk
  BY <1>3
<1>10. h.block = B[m] /\ B[m] \in Int /\ B[m] >= -1
  BY <1>4, <1>5
<1>11. B[m] > 0 <=> B[m] # -1 /\ B[m] # 0
  BY <1>10
<1> QED BY <1>7, <1>8, <1>9, <1>10, <1>11

(* In a list without times the hardfork that is said to come after the m-th   *)
(* scheduled one is the q-th, and those between are of the block of the m-th. *)
ComesNext(forks, hfs, B, m, q) ==
    /\ q \in 1..Len(hfs) /\ m < q /\ B[m] < B[q] /\ B[q] > 0
    /\ Cm!NextHardforkBlockOrTimestamp(forks, hfs[m].name) = B[q]
    /\ \A i \in 1..Len(hfs) : m < i /\ i < q => B[i] = B[m]

LEMMA NextIs ==
    ASSUME NEW forks, NEW hfs, NEW at, NEW B, NEW T, Scheduling(forks, hfs, at, B, T),
           \A i \in 1..Len(hfs) : T[i] = -1, NEW m \in 1..Len(hfs),
           Cm!NextHardforkBlockOrTimestamp(forks, hfs[m].name) # -1
    PROVE  \E q : ComesNext(forks, hfs, B, m, q)
<1> DEFINE next == {i \in at[m] + 1..Len(forks) :
                     Cm!BlockOrTime(forks[i]) \notin {-1, Cm!BlockOrTime(hfs[m])}}
<1>1. /\ Len(hfs) \in Nat /\ Len(forks) \in Nat
      /\ at \in [1..Len(hfs) -> 1..Len(forks)]
      /\ \A i, j \in 1..Len(hfs) : i < j => at[i] < at[j]
      /\ \A i \in 1..Len(hfs) : hfs[i] = forks[at[i]] /\ hfs[i].block = B[i] /\ hfs[i].time = T[i]
      /\ \A i \in 1..Len(forks) : IsScheduled(forks[i]) => \E k \in 1..Len(hfs) : at[k] = i
  BY DEF Scheduling, Schedule
<1>2. \A i \in 1..Len(hfs) : B[i] \in Int /\ B[i] >= 0 /\ \A j \in 1..Len(hfs) : i < j => B[i] <= B[j]
  <2>1. Dated(Len(hfs), B, T)
    BY DEF Scheduling
  <2>2. \A i \in 1..Len(hfs) : B[i] \in Int /\ B[i] >= -1 /\ B[i] # -1
    BY <2>1 DEF Dated
  <2>3. \A i, j \in 1..Len(hfs) : i < j => B[i] <= B[j]
    BY <2>1, <2>2 DEF Dated
  <2> QED BY <2>2, <2>3
<1>3. \A i \in 1..Len(hfs) : Cm!BlockOrTime(hfs[i]) = B[i]
  BY <1>1 DEF Cm!BlockOrTime, Cm!Null
<1>4. \A i \in 1..Len(forks) : Cm!BlockOrTime(forks[i]) # -1 => IsScheduled(forks[i])
  BY DEF Cm!BlockOrTime, IsScheduled, Cm!Null
<1>5. IsNamed(forks, hfs[m], at[m], B[m])
  BY NamedAt
<1>6. /\ Cm!Positions(forks, hfs[m].name) = {at[m]} /\ Cm!Min({at[m]}) = at[m]
      /\ forks[at[m]] = hfs[m]
  BY <1>1, <1>5 DEF IsNamed
<1>7. Cm!NextHardforkBlockOrTimestamp(forks, hfs[m].name) =
         IF next = {} THEN -1 ELSE Cm!BlockOrTime(forks[Cm!Min(next)])
  BY <1>6 DEF Cm!NextHardforkBlockOrTimestamp, Cm!Null
<1>8. \A i \in Int : i \in next <=> /\ at[m] < i /\ i <= Len(forks)
                                   /\ Cm!BlockOrTime(forks[i]) # -1 /\ Cm!BlockOrTime(forks[i]) # B[m]
  BY <1>1, <1>3
<1>9. next \subseteq Nat
  BY <1>1
<1> HIDE DEF next
<1>10. next # {}
  BY <1>7
<1>11. PICK p \in next : p = Cm!Min(next) /\ \A i \in next : p <= i
  BY <1>9, <1>10, MinIs
<1>12. p \in 1..Len(forks) /\ at[m] < p /\ Cm!BlockOrTime(forks[p]) # -1 /\ Cm!BlockOrTime(forks[p]) # B[m]
  BY <1>1, <1>8, <1>9, <1>11
<1>13. PICK q \in 1..Len(hfs) : at[q] = p
  BY <1>1, <1>4, <1>12
<1>14. Cm!BlockOrTime(forks[p]) = B[q]
  BY <1>1, <1>3, <1>13
<1>15. m < q
  <2>1. q \in Int /\ m \in Int /\ at[q] \in Int /\ at[m] \in Int /\ at[m] < at[q]
    BY <1>1, <1>12, <1>13
  <2>2. q # m
    BY <2>1
  <2>3. ~(q < m)
    <3>1. q < m => at[q] < at[m]
      BY <1>1
    <3> QED BY <2>1, <3>1
  <2> QED BY <2>1, <2>2, <2>3
<1>16. B[m] < B[q] /\ B[q] > 0
  <2>1. B[m] <= B[q] /\ B[m] # B[q] /\ B[m] \in Int /\ B[q] \in Int /\ B[m] >= 0
    BY <1>2, <1>12, <1>14, <1>15
  <2> QED BY <2>1
<1>17. ASSUME NEW i \in 1..Len(hfs), m < i, i < q PROVE B[i] = B[m]
  <2>1. at[m] < at[i] /\ at[i] < p /\ at[i] \in 1..Len(forks) /\ p \in Int
    <3>1. at[m] < at[i] /\ at[i] < at[q]
      BY <1>1, <1>13, <1>17
    <3>2. at[i] \in 1..Len(forks)
      BY <1>1
    <3> QED BY <1>12, <1>13, <3>1, <3>2
  <2>2. at[i] \notin next
    BY <1>11, <2>1
  <2>3. Cm!BlockOrTime(forks[at[i]]) = -1 \/ Cm!BlockOrTime(forks[at[i]]) = B[m]
    BY <1>8, <2>1, <2>2
  <2>4. Cm!BlockOrTime(forks[at[i]]) = B[i] /\ B[i] \in Int /\ B[i] >= 0
    BY <1>1, <1>2, <1>3
  <2> QED BY <2>3, <2>4
<1>18. Cm!NextHardforkBlockOrTimestamp(forks, hfs[m].name) = B[q]
  BY <1>7, <1>10, <1>11, <1>14
<1> QED BY <1>15, <1>16, <1>17, <1>18 DEF ComesNext

(* The block that is said to come next is where the answer changes.           *)
LEMMA NextChanges ==
    ASSUME NEW forks \in Seq(Cm!HardforkConfig), Cm!Ordered(forks),
           \A h \in Cm!ToSet(Cm!Scheduled(forks)) : h.time = Cm!Null
    PROVE  Cm!NextIsTheChange(forks)
<1>1. PICK hfs : hfs = Cm!Scheduled(forks)
  OBVIOUS
<1>2. PICK at, B, T : Scheduling(forks, hfs, at, B, T)
  BY <1>1, OrderedScheduling
<1>3. /\ Len(hfs) \in Nat /\ DOMAIN hfs = 1..Len(hfs)
      /\ \A i \in 1..Len(hfs) : hfs[i].block = B[i] /\ hfs[i].time = T[i] /\ B[i] \in Int
  <2>1. Schedule(forks, hfs, at) /\ Dated(Len(hfs), B, T)
    BY <1>2 DEF Scheduling
  <2>2. Len(hfs) \in Nat /\ DOMAIN hfs = 1..Len(hfs)
    BY <2>1 DEF Schedule
  <2>3. \A i \in 1..Len(hfs) : hfs[i].block = B[i] /\ hfs[i].time = T[i]
    BY <1>2 DEF Scheduling
  <2>4. \A i \in 1..Len(hfs) : B[i] \in Int
    BY <2>1 DEF Dated
  <2> QED BY <2>2, <2>3, <2>4
<1>4. \A i \in 1..Len(hfs) : T[i] = -1
  BY <1>1, <1>3 DEF Cm!ToSet, Cm!Null
<1> SUFFICES ASSUME NEW h \in Cm!ToSet(hfs), NEW next, NEW before, NEW then,
                    next = Cm!NextHardforkBlockOrTimestamp(forks, h.name),
                    before = Cm!GetHardforkByBlockNumber(forks, next - 1, Cm!Null),
                    then = Cm!GetHardforkByBlockNumber(forks, next, Cm!Null),
                    next # Cm!Null
             PROVE  /\ Cm!SameSchedule(Cm!GetHardfork(forks, before), h)
                    /\ Cm!HardforkGteHardfork(forks, before, h.name)
                    /\ ~Cm!HardforkGteHardfork(forks, before, then)
  BY <1>1 DEF Cm!NextIsTheChange
<1>5. PICK m \in 1..Len(hfs) : h = hfs[m]
  BY <1>3 DEF Cm!ToSet
<1>6. Cm!NextHardforkBlockOrTimestamp(forks, hfs[m].name) # -1
  BY <1>5 DEF Cm!Null
<1>7. PICK q : ComesNext(forks, hfs, B, m, q)
  BY <1>2, <1>4, <1>6, NextIs
<1>8. /\ q \in 1..Len(hfs) /\ m < q /\ B[m] < B[q] /\ B[q] > 0 /\ next = B[q]
      /\ \A i \in 1..Len(hfs) : m < i /\ i < q => B[i] = B[m]
  BY <1>5, <1>7 DEF ComesNext
<1>9. next \in Nat /\ next - 1 \in Nat /\ B[m] \in Int /\ B[m] <= next - 1 /\ B[q] = next
  BY <1>3, <1>8
<1>10. PICK k \in 1..Len(hfs) : /\ Cm!GetHardforkByBlockNumber(forks, next - 1, -1) = hfs[k].name
                                /\ \A i \in 1..Len(hfs) : i <= k <=> B[i] # -1 /\ B[i] <= next - 1
  <2>1. PICK blk \in Nat : blk = next - 1
    BY <1>9
  <2>2. HasDates(forks, hfs, B, T)
    BY <1>2, SchedulingDates
  <2>3. \E k : LastReached(forks, hfs, B, blk, k)
    BY <2>2, FindsWithoutTime
  <2> QED BY <2>1, <2>3 DEF LastReached
<1>11. PICK l \in 1..Len(hfs) : /\ Cm!GetHardforkByBlockNumber(forks, next, -1) = hfs[l].name
                                /\ \A i \in 1..Len(hfs) : i <= l <=> B[i] # -1 /\ B[i] <= next
  <2>1. HasDates(forks, hfs, B, T)
    BY <1>2, SchedulingDates
  <2>2. \E l : LastReached(forks, hfs, B, next, l)
    BY <1>9, <2>1, FindsWithoutTime
  <2> QED BY <2>2 DEF LastReached
<1>12. before = hfs[k].name /\ then = hfs[l].name
  BY <1>10, <1>11 DEF Cm!Null
<1>13. \A i \in 1..Len(hfs) : B[i] # -1
  <2>1. Dated(Len(hfs), B, T)
    BY <1>2 DEF Scheduling
  <2> QED BY <1>4, <2>1 DEF Dated
<1>14. m <= k /\ ~(q <= k) /\ q <= l
  BY <1>8, <1>9, <1>10, <1>11, <1>13
<1>15. B[k] = B[m] /\ T[k] = T[m]
  <2>1. m = k \/ (m < k /\ k < q)
    BY <1>8, <1>14
  <2>2. B[k] = B[m]
    BY <1>8, <2>1
  <2> QED BY <1>4, <2>2
<1>16. Cm!GetHardfork(forks, before) = hfs[k]
  <2>1. IsNamed(forks, hfs[k], at[k], B[k])
    BY <1>2, NamedAt
  <2> QED BY <1>12, <2>1 DEF IsNamed
<1>17. Cm!SameSchedule(Cm!GetHardfork(forks, before), h)
  BY <1>3, <1>5, <1>15, <1>16 DEF Cm!SameSchedule
<1>18. Cm!HardforkGteHardfork(forks, hfs[k].name, hfs[m].name) <=> k >= m
  BY <1>2, GteIs
<1>19. Cm!HardforkGteHardfork(forks, hfs[k].name, hfs[l].name) <=> k >= l
  BY <1>2, GteIs
<1>20. k >= m /\ ~(k >= l)
  BY <1>8, <1>14
<1> QED BY <1>5, <1>12, <1>17, <1>18, <1>19, <1>20

(* Fork hashes. The last element of a non-empty sequence.                     *)
EndsWith(s, e) == s # <<>> /\ s[Len(s)] = e

(* Repetitions left out, a sequence ends as it did.                           *)
LEMMA UnrepeatedEnds ==
    ASSUME NEW s \in Seq(Int), NEW u, u = Cm!Unrepeated(s)
    PROVE  /\ u \in Seq(Int)
           /\ (s = <<>> => u = <<>>)
           /\ (s # <<>> => EndsWith(u, s[Len(s)]))
<1> DEFINE S == {i \in DOMAIN s : i = 1 \/ s[i] # s[i - 1]}
<1>1. u = Picked(s, S)
  BY PickedSame DEF Cm!Unrepeated
<1>2. \A i \in 1..Len(s) : i \in S <=> i = 1 \/ s[i] # s[i - 1]
  OBVIOUS
<1> HIDE DEF S
<1>3. PICK at : /\ ListsInOrder(at, S, Len(s))
                /\ Picked(s, S) \in Seq(Int) /\ DOMAIN Picked(s, S) = DOMAIN at
                /\ \A k \in DOMAIN at : Picked(s, S)[k] = s[at[k]]
  BY PickedKeeps
<1>4. /\ u \in Seq(Int) /\ DOMAIN u = DOMAIN at
      /\ \A k \in DOMAIN at : u[k] = s[at[k]]
  BY <1>1, <1>3
<1>5. /\ at \in Seq(1..Len(s)) /\ Len(s) \in Nat
      /\ \A j, k \in DOMAIN at : j < k => at[j] < at[k]
      /\ \A k \in DOMAIN at : at[k] \in S
      /\ \A i \in 1..Len(s) : i \in S => \E k \in DOMAIN at : at[k] = i
  BY <1>3 DEF ListsInOrder
<1>6. Len(at) \in Nat /\ DOMAIN at = 1..Len(at) /\ Len(u) \in Nat /\ DOMAIN u = 1..Len(u)
  BY <1>4, <1>5
<1>7. Len(u) = Len(at)
  BY <1>4, <1>6
<1>8. ASSUME s = <<>> PROVE u = <<>>
  <2>1. Len(s) = 0
    BY <1>8
  <2>2. \A k \in 1..Len(at) : at[k] \in 1..0
    BY <1>5, <1>6, <2>1
  <2>3. Len(at) = 0
    <3>1. ASSUME Len(at) > 0 PROVE FALSE
      <4>1. 1 \in 1..Len(at)
        BY <1>6, <3>1
      <4> QED BY <2>2, <4>1
    <3> QED BY <1>6, <3>1
  <2> QED BY <1>4, <1>7, <2>3
<1>9. ASSUME s # <<>> PROVE EndsWith(u, s[Len(s)])
  <2>1. Len(s) > 0 /\ 1 \in 1..Len(s)
    BY <1>5, <1>9
  <2>2. PICK k \in DOMAIN at : at[k] = 1
    BY <1>2, <1>5, <2>1
  <2>3. Len(at) > 0 /\ Len(at) \in DOMAIN at
    BY <1>6, <2>2
  <2>4. PICK e \in 1..Len(s) : e = at[Len(at)]
    BY <1>5, <2>3
  <2>5. ASSUME NEW i \in 1..Len(s), e < i PROVE s[i] = s[i - 1]
    <3>1. i \notin S
      <4>1. ASSUME i \in S PROVE FALSE
        <5>1. PICK j \in DOMAIN at : at[j] = i
          BY <1>5, <4>1
        <5>2. j \in 1..Len(at)
          BY <1>6
        <5>3. j = Len(at) \/ j < Len(at)
          BY <1>6, <5>2
        <5>4. j < Len(at) => at[j] < e
          BY <1>5, <2>3, <2>4
        <5> QED BY <2>4, <2>5, <5>1, <5>3, <5>4
      <4> QED BY <4>1
    <3> QED BY <1>2, <3>1
  <2> DEFINE P == {j \in Nat : e + j <= Len(s) => s[e + j] = s[e]}
  <2>6. 0 \in P
    BY <1>5
  <2>7. ASSUME NEW j \in Nat, j \in P PROVE j + 1 \in P
    <3>1. ASSUME e + (j + 1) <= Len(s) PROVE s[e + (j + 1)] = s[e]
      <4>1. s[e + j] = s[e]
        BY <1>5, <2>7, <3>1
      <4>2. PICK i \in 1..Len(s) : i = e + (j + 1)
        BY <1>5, <3>1
      <4>3. s[i] = s[i - 1] /\ i - 1 = e + j
        BY <2>5, <4>2
      <4> QED BY <4>1, <4>2, <4>3
    <3> QED BY <3>1
  <2>8. Nat \subseteq P
    <3> HIDE DEF P
    <3> QED BY <2>6, <2>7, AllNumbers
  <2>9. Len(s) - e \in Nat /\ e + (Len(s) - e) = Len(s)
    BY <1>5
  <2>10. s[Len(s)] = s[e]
    <3>1. PICK j \in Nat : e + j = Len(s)
      BY <2>9
    <3>2. j \in P /\ e + j <= Len(s)
      BY <1>5, <2>8, <3>1
    <3>3. s[e + j] = s[e]
      BY <3>2
    <3> QED BY <3>1, <3>3
  <2>11. u[Len(u)] = s[e]
    BY <1>4, <1>7, <2>3, <2>4
  <2>12. u # <<>>
    BY <1>7, <2>3
  <2> QED BY <2>10, <2>11, <2>12 DEF EndsWith
<1> QED BY <1>4, <1>8, <1>9

(* The marks of the hardforks up to the n-th end with its block or time, and  *)
(* there are none where all are at block 0 or without a date.                 *)
LEMMA MarksEnd ==
    ASSUME NEW forks \in Seq(Cm!HardforkConfig), NEW n \in 1..Len(forks), NEW marks, marks = Cm!Marks(forks, n)
    PROVE  /\ marks \in Seq(Int)
           /\ (Cm!BlockOrTime(forks[n]) \notin {-1, 0} => EndsWith(marks, Cm!BlockOrTime(forks[n])))
           /\ ((\A i \in 1..n : Cm!BlockOrTime(forks[i]) \in {-1, 0}) => marks = <<>>)
<1>0. PICK all : all = [i \in 1..n |-> Cm!BlockOrTime(forks[i])]
  OBVIOUS
<1> DEFINE S == {i \in 1..n : all[i] \notin {-1, 0}}
<1>1. marks = Picked(all, S)
  BY <1>0, PickedSame DEF Cm!Marks, Cm!Null
<1>2. n \in Nat /\ \A i \in 1..n : i \in 1..Len(forks)
  OBVIOUS
<1>3. \A i \in 1..n : all[i] = Cm!BlockOrTime(forks[i]) /\ all[i] \in Int
  <2> SUFFICES ASSUME NEW i \in 1..n PROVE Cm!BlockOrTime(forks[i]) \in Int
    BY <1>0
  <2>1. PICK h \in Cm!HardforkConfig : h = forks[i]
    BY <1>2
  <2>2. h.block \in Int /\ h.time \in Int
    BY DEF Cm!HardforkConfig, Cm!Null
  <2> QED BY <2>1, <2>2 DEF Cm!BlockOrTime
<1>4. all \in Seq(Int) /\ Len(all) = n
  BY <1>0, <1>2, <1>3
<1>5. \A i \in 1..n : i \in S <=> Cm!BlockOrTime(forks[i]) \notin {-1, 0}
  BY <1>3
<1> HIDE DEF S
<1>6. PICK at : /\ ListsInOrder(at, S, Len(all))
                /\ Picked(all, S) \in Seq(Int) /\ DOMAIN Picked(all, S) = DOMAIN at
                /\ \A k \in DOMAIN at : Picked(all, S)[k] = all[at[k]]
  <2>1. all \in Seq(Int)
    BY <1>4
  <2> QED BY <2>1, PickedKeeps
<1>7. /\ marks \in Seq(Int) /\ DOMAIN marks = DOMAIN at
      /\ \A k \in DOMAIN at : marks[k] = all[at[k]]
  BY <1>1, <1>6
<1>8. /\ at \in Seq(1..n)
      /\ \A j, k \in DOMAIN at : j < k => at[j] < at[k]
      /\ \A k \in DOMAIN at : at[k] \in S
      /\ \A i \in 1..n : i \in S => \E k \in DOMAIN at : at[k] = i
  BY <1>4, <1>6 DEF ListsInOrder
<1>9. Len(at) \in Nat /\ DOMAIN at = 1..Len(at) /\ Len(marks) \in Nat /\ DOMAIN marks = 1..Len(marks)
  BY <1>7, <1>8
<1>10. Len(marks) = Len(at)
  BY <1>7, <1>9
<1>11. ASSUME Cm!BlockOrTime(forks[n]) \notin {-1, 0} PROVE EndsWith(marks, Cm!BlockOrTime(forks[n]))
  <2>1. n \in 1..n /\ n \in S
    BY <1>2, <1>5, <1>11
  <2>2. PICK k \in DOMAIN at : at[k] = n
    BY <1>8, <2>1
  <2>3. Len(at) \in DOMAIN at /\ k \in 1..Len(at)
    BY <1>9, <2>2
  <2>4. at[Len(at)] \in 1..n
    BY <1>8, <2>3
  <2>5. k = Len(at)
    <3>1. k < Len(at) => n < at[Len(at)]
      BY <1>8, <2>2, <2>3
    <3> QED BY <1>2, <1>9, <2>3, <2>4, <3>1
  <2>6. marks[Len(marks)] = Cm!BlockOrTime(forks[n])
    BY <1>3, <1>7, <1>10, <2>1, <2>2, <2>5
  <2>7. marks # <<>>
    BY <1>9, <1>10, <2>3
  <2> QED BY <2>6, <2>7 DEF EndsWith
<1>12. ASSUME \A i \in 1..n : Cm!BlockOrTime(forks[i]) \in {-1, 0} PROVE marks = <<>>
  <2>1. ASSUME Len(at) > 0 PROVE FALSE
    <3>1. 1 \in DOMAIN at
      BY <1>9, <2>1
    <3>2. at[1] \in 1..n /\ at[1] \in S
      BY <1>8, <3>1
    <3> QED BY <1>5, <1>12, <3>2
  <2>2. Len(marks) = 0
    BY <1>9, <1>10, <2>1
  <2> QED BY <1>7, <2>2
<1> QED BY <1>7, <1>11, <1>12

(* Of an ordered list, only hardforks of block 0 or without a date come       *)
(* before one of block 0.                                                     *)
LEMMA ZeroComesFirst ==
    ASSUME NEW forks \in Seq(Cm!HardforkConfig), Cm!Ordered(forks), NEW n \in 1..Len(forks),
           Cm!BlockOrTime(forks[n]) = 0, NEW i \in 1..n
    PROVE  Cm!BlockOrTime(forks[i]) \in {-1, 0}
<1>1. PICK hfs : hfs = Cm!Scheduled(forks)
  OBVIOUS
<1>2. PICK at, B, T : Scheduling(forks, hfs, at, B, T)
  BY <1>1, OrderedScheduling
<1>3. /\ Schedule(forks, hfs, at) /\ Dated(Len(hfs), B, T)
      /\ \A k \in 1..Len(hfs) : hfs[k].block = B[k] /\ hfs[k].time = T[k]
  BY <1>2 DEF Scheduling
<1>4. /\ at \in [1..Len(hfs) -> 1..Len(forks)]
      /\ \A j, k \in 1..Len(hfs) : j < k => at[j] < at[k]
      /\ \A k \in 1..Len(hfs) : hfs[k] = forks[at[k]]
      /\ \A p \in 1..Len(forks) : IsScheduled(forks[p]) => \E k \in 1..Len(hfs) : at[k] = p
      /\ Len(hfs) \in Nat
  BY <1>3 DEF Schedule
<1>5. \A p \in 1..Len(forks) : Cm!BlockOrTime(forks[p]) # -1 => IsScheduled(forks[p])
  BY DEF Cm!BlockOrTime, IsScheduled, Cm!Null
<1>6. i \in 1..Len(forks) /\ i <= n /\ n \in Int
  OBVIOUS
<1> SUFFICES ASSUME Cm!BlockOrTime(forks[i]) # -1 PROVE Cm!BlockOrTime(forks[i]) = 0
  OBVIOUS
<1>7. PICK j \in 1..Len(hfs) : at[j] = i
  BY <1>4, <1>5, <1>6
<1>8. PICK k \in 1..Len(hfs) : at[k] = n
  BY <1>4, <1>5
<1>9. Cm!BlockOrTime(forks[i]) = (IF T[j] # -1 THEN T[j] ELSE B[j])
  BY <1>3, <1>4, <1>7 DEF Cm!BlockOrTime, Cm!Null
<1>10. Cm!BlockOrTime(forks[n]) = (IF T[k] # -1 THEN T[k] ELSE B[k])
  BY <1>3, <1>4, <1>8 DEF Cm!BlockOrTime, Cm!Null
<1>11. /\ B[j] \in Int /\ B[j] >= -1 /\ T[j] # 0 /\ (B[j] = -1 <=> T[j] # -1)
       /\ B[k] \in Int /\ B[k] >= -1 /\ T[k] # 0 /\ (B[k] = -1 <=> T[k] # -1)
  BY <1>3 DEF Dated
<1>12. B[k] = 0 /\ T[k] = -1
  BY <1>10, <1>11
<1>13. j = k \/ j < k
  <2>1. j \in Int /\ k \in Int /\ ~(k < j)
    <3>1. k < j => n < i
      BY <1>4, <1>7, <1>8
    <3> QED BY <1>6, <3>1
  <2> QED BY <2>1
<1>14. CASE j = k
  BY <1>9, <1>12, <1>14
<1>15. CASE j < k
  <2>1. B[j] # -1 /\ B[j] <= B[k]
    BY <1>3, <1>12, <1>15 DEF Dated
  <2>2. B[j] = 0 /\ T[j] = -1
    BY <1>11, <1>12, <2>1
  <2> QED BY <1>9, <2>2
<1> QED BY <1>13, <1>14, <1>15

(* The first hardfork of a name, and the only one of an ordered list.         *)
LEMMA FirstOfName ==
    ASSUME NEW forks \in Seq(Cm!HardforkConfig), NEW n \in 1..Len(forks)
    PROVE  \E p \in 1..Len(forks) :
              /\ Cm!Min(Cm!Positions(forks, forks[n].name)) = p /\ forks[p].name = forks[n].name
              /\ Cm!GetHardfork(forks, forks[n].name) = forks[p]
              /\ \A genesis : Cm!CalcForkHash(forks, forks[n].name, genesis) =
                              [genesis |-> genesis, marks |-> Cm!Unrepeated(Cm!Marks(forks, p))]
              /\ Cm!Ordered(forks) => p = n
<1>1. PICK S : S = Cm!Positions(forks, forks[n].name)
  OBVIOUS
<1>2. DOMAIN forks = 1..Len(forks) /\ \A i : i \in S <=> i \in 1..Len(forks) /\ forks[i].name = forks[n].name
  BY <1>1 DEF Cm!Positions
<1>3. S \subseteq Nat /\ n \in S /\ S # {}
  BY <1>2
<1>4. PICK p \in S : p = Cm!Min(S)
  BY <1>3, MinIs
<1>5. p \in 1..Len(forks) /\ forks[p].name = forks[n].name
  BY <1>2, <1>4
<1>6. Cm!GetHardfork(forks, forks[n].name) = forks[p]
  BY <1>1, <1>4 DEF Cm!GetHardfork
<1>7. \A genesis : Cm!CalcForkHash(forks, forks[n].name, genesis) =
                   [genesis |-> genesis, marks |-> Cm!Unrepeated(Cm!Marks(forks, p))]
  BY <1>1, <1>3, <1>4 DEF Cm!CalcForkHash
<1>8. Cm!Ordered(forks) => p = n
  BY <1>2, <1>5 DEF Cm!Ordered
<1> QED BY <1>1, <1>4, <1>5, <1>6, <1>7, <1>8

(* The hash of the n-th hardfork of an ordered list tells its block or time.  *)
HashTells(hash, date) ==
    \/ date = 0 /\ hash.marks = <<>>
    \/ date # 0 /\ EndsWith(hash.marks, date)

LEMMA CalcForkHashTells ==
    ASSUME NEW forks \in Seq(Cm!HardforkConfig), Cm!Ordered(forks), NEW n \in 1..Len(forks),
           Cm!BlockOrTime(forks[n]) # -1, NEW genesis
    PROVE  HashTells(Cm!CalcForkHash(forks, forks[n].name, genesis), Cm!BlockOrTime(forks[n]))
<1>1. Cm!CalcForkHash(forks, forks[n].name, genesis) =
         [genesis |-> genesis, marks |-> Cm!Unrepeated(Cm!Marks(forks, n))]
  BY FirstOfName
<1>2. PICK marks : marks = Cm!Marks(forks, n)
  OBVIOUS
<1>3. PICK u : u = Cm!Unrepeated(marks)
  OBVIOUS
<1>4. marks \in Seq(Int)
  BY <1>2, MarksEnd
<1>5. (marks = <<>> => u = <<>>) /\ (marks # <<>> => EndsWith(u, marks[Len(marks)]))
  BY <1>3, <1>4, UnrepeatedEnds
<1>6. Cm!CalcForkHash(forks, forks[n].name, genesis).marks = u
  BY <1>1, <1>2, <1>3
<1>7. CASE Cm!BlockOrTime(forks[n]) = 0
  <2>1. \A i \in 1..n : Cm!BlockOrTime(forks[i]) \in {-1, 0}
    BY <1>7, ZeroComesFirst
  <2>2. marks = <<>>
    BY <1>2, <2>1, MarksEnd
  <2> QED BY <1>5, <1>6, <1>7, <2>2 DEF HashTells
<1>8. CASE Cm!BlockOrTime(forks[n]) # 0
  <2>1. Cm!BlockOrTime(forks[n]) \notin {-1, 0}
    BY <1>8
  <2>2. EndsWith(marks, Cm!BlockOrTime(forks[n]))
    BY <1>2, <2>1, MarksEnd
  <2>3. marks # <<>> /\ marks[Len(marks)] = Cm!BlockOrTime(forks[n])
    BY <2>2 DEF EndsWith
  <2>4. EndsWith(u, Cm!BlockOrTime(forks[n]))
    BY <1>5, <2>3
  <2> QED BY <1>6, <1>8, <2>4 DEF HashTells
<1> QED BY <1>7, <1>8

(* The hashes on record of a list are of its hardforks, from some genesis.    *)
HashesAreOf(forks) ==
    /\ forks \in Seq(Cm!HardforkConfig)
    /\ \A i \in 1..Len(forks) : forks[i].hash # Cm!NoHash =>
          /\ Cm!BlockOrTime(forks[i]) # -1
          /\ \E genesis \in Cm!Genesis : forks[i].hash = Cm!CalcForkHash(forks, forks[i].name, genesis)

(* So one finds a hardfork of the block or time it was computed for.          *)
LEMMA HashFindsFork ==
    ASSUME NEW forks, HashesAreOf(forks), Cm!Ordered(forks), NEW i \in 1..Len(forks), forks[i].hash # Cm!NoHash
    PROVE  Cm!BlockOrTime(Cm!HardforkForForkHash(forks, forks[i].hash)) = Cm!BlockOrTime(forks[i])
<1>1. forks \in Seq(Cm!HardforkConfig) /\ Len(forks) \in Nat /\ DOMAIN forks = 1..Len(forks)
  BY DEF HashesAreOf
<1>2. PICK hash : hash = forks[i].hash
  OBVIOUS
<1>3. PICK S : S = {j \in DOMAIN forks : forks[j].hash = hash}
  OBVIOUS
<1>4. S \subseteq 0..Len(forks) /\ S \subseteq Int /\ i \in S
  BY <1>1, <1>2, <1>3
<1>5. PICK m \in S : \A k \in S : k <= m
  BY <1>1, <1>4, GreatestNumber
<1>6. Cm!Max(S) = m
  BY <1>4, <1>5, MaxIs
<1>7. m \in 1..Len(forks) /\ forks[m].hash = hash
  BY <1>1, <1>3
<1>8. Cm!HardforkForForkHash(forks, forks[i].hash) = forks[m]
  BY <1>2, <1>3, <1>6 DEF Cm!HardforkForForkHash
<1>9. ASSUME NEW j \in 1..Len(forks), forks[j].hash = hash PROVE HashTells(hash, Cm!BlockOrTime(forks[j]))
  <2>1. Cm!BlockOrTime(forks[j]) # -1
    BY <1>2, <1>9 DEF HashesAreOf
  <2>2. PICK genesis : hash = Cm!CalcForkHash(forks, forks[j].name, genesis)
    BY <1>2, <1>9 DEF HashesAreOf
  <2> QED BY <1>1, <2>1, <2>2, CalcForkHashTells
<1>10. HashTells(hash, Cm!BlockOrTime(forks[i])) /\ HashTells(hash, Cm!BlockOrTime(forks[m]))
  BY <1>2, <1>7, <1>9
<1>11. Cm!BlockOrTime(forks[i]) = Cm!BlockOrTime(forks[m])
  BY <1>10 DEF HashTells, EndsWith
<1> QED BY <1>8, <1>11

(* Filling in fork hashes changes nothing else of a list,                     *)
SameDates(forks, filled) ==
    /\ filled \in Seq(Cm!HardforkConfig) /\ Len(filled) = Len(forks)
    /\ \A i \in 1..Len(forks) : /\ filled[i].name = forks[i].name
                                /\ filled[i].block = forks[i].block /\ filled[i].time = forks[i].time

(* and so not the hashes that it has from a genesis.                          *)
LEMMA SameForkHash ==
    ASSUME NEW forks \in Seq(Cm!HardforkConfig), NEW filled, SameDates(forks, filled),
           NEW n \in 1..Len(forks), NEW genesis \in Cm!Genesis
    PROVE  /\ Cm!CalcForkHash(filled, forks[n].name, genesis) = Cm!CalcForkHash(forks, forks[n].name, genesis)
           /\ Cm!CalcForkHash(forks, forks[n].name, genesis) \in Cm!Hashes
<1>1. /\ Len(forks) \in Nat /\ DOMAIN forks = 1..Len(forks) /\ DOMAIN filled = 1..Len(forks)
      /\ \A i \in 1..Len(forks) : /\ filled[i].name = forks[i].name
                                  /\ Cm!BlockOrTime(filled[i]) = Cm!BlockOrTime(forks[i])
  BY DEF SameDates, Cm!BlockOrTime
<1>2. PICK S : S = Cm!Positions(forks, forks[n].name)
  OBVIOUS
<1>3. Cm!Positions(filled, forks[n].name) = S
  BY <1>1, <1>2 DEF Cm!Positions
<1>4. n \in S /\ S \subseteq 1..Len(forks)
  BY <1>1, <1>2 DEF Cm!Positions
<1>5. PICK p \in S : p = Cm!Min(S)
  <2>1. S \subseteq Nat /\ S # {}
    BY <1>1, <1>4
  <2> QED BY <2>1, MinIs
<1>6. p \in 1..Len(forks)
  BY <1>4
<1>7. [i \in 1..p |-> Cm!BlockOrTime(filled[i])] = [i \in 1..p |-> Cm!BlockOrTime(forks[i])]
  BY <1>1, <1>6
<1>8. Cm!Marks(filled, p) = Cm!Marks(forks, p)
  BY <1>7 DEF Cm!Marks
<1>9. /\ Cm!CalcForkHash(forks, forks[n].name, genesis) =
            [genesis |-> genesis, marks |-> Cm!Unrepeated(Cm!Marks(forks, p))]
      /\ Cm!CalcForkHash(filled, forks[n].name, genesis) =
            [genesis |-> genesis, marks |-> Cm!Unrepeated(Cm!Marks(filled, p))]
  <2>1. S # {}
    BY <1>4
  <2> QED BY <1>2, <1>3, <1>5, <2>1 DEF Cm!CalcForkHash
<1>10. Cm!Marks(forks, p) \in Seq(Int)
  BY <1>6, MarksEnd
<1>11. Cm!Unrepeated(Cm!Marks(forks, p)) \in Seq(Int)
  BY <1>10, UnrepeatedEnds
<1> QED BY <1>8, <1>9, <1>11 DEF Cm!Hashes

(* setForkHashes() fills in hashes of the hardforks they are put on.          *)
LEMMA FillingKeeps ==
    ASSUME NEW forks, HashesAreOf(forks), NEW genesis \in Cm!Genesis
    PROVE  HashesAreOf(Cm!WithForkHashes(forks, genesis))
<1>1. PICK filled : filled = Cm!WithForkHashes(forks, genesis)
  OBVIOUS
<1>2. forks \in Seq(Cm!HardforkConfig) /\ Len(forks) \in Nat /\ DOMAIN forks = 1..Len(forks)
  BY DEF HashesAreOf
<1>3. /\ filled = [i \in 1..Len(forks) |-> filled[i]]
      /\ \A i \in 1..Len(forks) :
            filled[i] = IF forks[i].hash = Cm!NoHash /\ Cm!BlockOrTime(forks[i]) # -1
                        THEN [forks[i] EXCEPT !.hash = Cm!ForkHash(forks, forks[i].name, genesis)]
                        ELSE forks[i]
  BY <1>1, <1>2 DEF Cm!WithForkHashes, Cm!Null
<1>4. SameDates(forks, forks)
  BY <1>2 DEF SameDates
<1>5. ASSUME NEW i \in 1..Len(forks)
      PROVE  \E g \in Cm!Genesis : /\ Cm!ForkHash(forks, forks[i].name, genesis) =
                                     Cm!CalcForkHash(forks, forks[i].name, g)
                               /\ Cm!CalcForkHash(forks, forks[i].name, g) \in Cm!Hashes
  <2>1. PICK p \in 1..Len(forks) : /\ forks[p].name = forks[i].name
                                   /\ Cm!GetHardfork(forks, forks[i].name) = forks[p]
    BY <1>2, FirstOfName
  <2>2. CASE forks[p].hash # Cm!NoHash
    <3>1. PICK g \in Cm!Genesis : forks[p].hash = Cm!CalcForkHash(forks, forks[p].name, g)
      BY <2>2 DEF HashesAreOf
    <3>2. Cm!ForkHash(forks, forks[i].name, genesis) = Cm!CalcForkHash(forks, forks[i].name, g)
      BY <2>1, <2>2, <3>1 DEF Cm!ForkHash
    <3>3. Cm!CalcForkHash(forks, forks[i].name, g) \in Cm!Hashes
      BY <1>2, <1>4, SameForkHash
    <3> QED BY <3>2, <3>3
  <2>3. CASE ~(forks[p].hash # Cm!NoHash)
    <3>1. Cm!ForkHash(forks, forks[i].name, genesis) = Cm!CalcForkHash(forks, forks[i].name, genesis)
      BY <2>1, <2>3 DEF Cm!ForkHash
    <3>2. Cm!CalcForkHash(forks, forks[i].name, genesis) \in Cm!Hashes
      BY <1>2, <1>4, SameForkHash
    <3> QED BY <3>1, <3>2
  <2> QED BY <2>2, <2>3
<1>6. ASSUME NEW i \in 1..Len(forks)
      PROVE  /\ filled[i] \in Cm!HardforkConfig /\ filled[i].name = forks[i].name
             /\ filled[i].block = forks[i].block /\ filled[i].time = forks[i].time
             /\ filled[i].hash # Cm!NoHash =>
                   /\ Cm!BlockOrTime(forks[i]) # -1
                   /\ \E g \in Cm!Genesis : filled[i].hash = Cm!CalcForkHash(forks, forks[i].name, g)
  <2>1. PICK h \in Cm!HardforkConfig : h = forks[i]
    BY <1>2
  <2>2. CASE forks[i].hash = Cm!NoHash /\ Cm!BlockOrTime(forks[i]) # -1
    <3>1. PICK g \in Cm!Genesis : /\ Cm!ForkHash(forks, forks[i].name, genesis) = Cm!CalcForkHash(forks, forks[i].name, g)
                             /\ Cm!CalcForkHash(forks, forks[i].name, g) \in Cm!Hashes
      BY <1>5
    <3>2. filled[i] = [h EXCEPT !.hash = Cm!CalcForkHash(forks, forks[i].name, g)]
      BY <1>3, <2>1, <2>2, <3>1
    <3>3. /\ filled[i] \in Cm!HardforkConfig /\ filled[i].name = h.name
          /\ filled[i].block = h.block /\ filled[i].time = h.time
          /\ filled[i].hash = Cm!CalcForkHash(forks, forks[i].name, g)
      BY <3>1, <3>2 DEF Cm!HardforkConfig
    <3> QED BY <2>1, <2>2, <3>3
  <2>3. CASE ~(forks[i].hash = Cm!NoHash /\ Cm!BlockOrTime(forks[i]) # -1)
    <3>1. filled[i] = forks[i]
      BY <1>3, <2>3
    <3>2. forks[i].hash # Cm!NoHash =>
             /\ Cm!BlockOrTime(forks[i]) # -1
             /\ \E g \in Cm!Genesis : forks[i].hash = Cm!CalcForkHash(forks, forks[i].name, g)
      BY DEF HashesAreOf
    <3> QED BY <2>1, <3>1, <3>2
  <2> QED BY <2>2, <2>3
<1>7. filled \in Seq(Cm!HardforkConfig) /\ Len(filled) = Len(forks)
  BY <1>2, <1>3, <1>6
<1>8. SameDates(forks, filled)
  BY <1>6, <1>7 DEF SameDates
<1>9. ASSUME NEW i \in 1..Len(forks), filled[i].hash # Cm!NoHash
      PROVE  /\ Cm!BlockOrTime(filled[i]) # -1
             /\ \E g \in Cm!Genesis : filled[i].hash = Cm!CalcForkHash(filled, filled[i].name, g)
  <2>1. PICK g \in Cm!Genesis : filled[i].hash = Cm!CalcForkHash(forks, forks[i].name, g)
    BY <1>6, <1>9
  <2>2. Cm!CalcForkHash(filled, forks[i].name, g) = Cm!CalcForkHash(forks, forks[i].name, g)
    BY <1>2, <1>8, SameForkHash
  <2>3. Cm!BlockOrTime(filled[i]) = Cm!BlockOrTime(forks[i])
    BY <1>6 DEF Cm!BlockOrTime
  <2> QED BY <1>6, <1>9, <2>1, <2>2, <2>3
<1>10. HashesAreOf(filled)
  BY <1>7, <1>9 DEF HashesAreOf
<1> QED BY <1>1, <1>10

(* The invariant of Common: every list of hardforks is one whose hashes on    *)
(* record are of its hardforks.                                               *)
ForkListsInv ==
    /\ forkLists \in Seq(Seq(Cm!HardforkConfig))
    /\ \A l \in DOMAIN forkLists : HashesAreOf(forkLists[l])

(* Lists without hashes are such ones,                                        *)
LEMMA UnhashedLists ==
    ASSUME NEW forks \in Seq(Cm!HardforkConfig), \A i \in DOMAIN forks : forks[i].hash = Cm!NoHash
    PROVE  HashesAreOf(forks)
BY DEF HashesAreOf

(* with that of mainnet and of a genesis file among them,                     *)
LEMMA ZondIsUnhashed ==
    HashesAreOf(<<Cm!Zond>>)
<1>1. Cm!NoHash \in Cm!Hashes
  <2>1. "none" \in Cm!Genesis /\ <<>> \in Seq(Int)
    BY DEF Cm!Genesis
  <2> QED BY <2>1 DEF Cm!NoHash, Cm!Hashes
<1>2. Cm!Zond \in Cm!HardforkConfig /\ Cm!Zond.hash = Cm!NoHash
  <2>1. "zond" \in Cm!HardforkNames
    BY DEF Cm!HardforkNames
  <2> QED BY <1>1, <2>1 DEF Cm!Zond, Cm!HardforkConfig, Cm!Null
<1>3. PICK h \in Cm!HardforkConfig : h = Cm!Zond
  BY <1>2
<1>4. <<h>> \in Seq(Cm!HardforkConfig) /\ \A i \in DOMAIN <<h>> : <<h>>[i].hash = Cm!NoHash
  BY <1>2, <1>3
<1>5. HashesAreOf(<<h>>)
  BY <1>4, UnhashedLists
<1> QED BY <1>3, <1>5

(* and one more keeps the invariant.                                          *)
LEMMA OneMoreList ==
    ASSUME ForkListsInv, NEW forks, HashesAreOf(forks), forkLists' = Append(forkLists, forks)
    PROVE  ForkListsInv'
<1>1. forkLists \in Seq(Seq(Cm!HardforkConfig)) /\ forks \in Seq(Cm!HardforkConfig)
  BY DEF ForkListsInv, HashesAreOf
<1>2. forkLists' \in Seq(Seq(Cm!HardforkConfig))
  BY <1>1
<1>3. ASSUME NEW l \in DOMAIN forkLists' PROVE HashesAreOf(forkLists'[l])
  <2>1. l = Len(forkLists) + 1 \/ l \in DOMAIN forkLists
    BY <1>1
  <2>2. CASE l = Len(forkLists) + 1
    BY <1>1, <2>2
  <2>3. CASE l \in DOMAIN forkLists
    <3>1. forkLists'[l] = forkLists[l]
      BY <1>1, <2>3
    <3> QED BY <2>3, <3>1 DEF ForkListsInv
  <2> QED BY <2>1, <2>2, <2>3
<1> QED BY <1>2, <1>3 DEF ForkListsInv

(* Every step of Common keeps it.                                             *)
LEMMA ForkListsNext ==
    ASSUME ForkListsInv, [Cm!Next]_(Cm!vars)
    PROVE  ForkListsInv'
<1>1. /\ GenesisHashes \subseteq Cm!Genesis
      /\ \A forks \in Lists : /\ forks \in Seq(Cm!HardforkConfig)
                              /\ \A i \in DOMAIN forks : forks[i].hash = Cm!NoHash
  BY InstancesAssumption DEF Cm!ConstantsOK, Cm!Genesis
<1>2. CASE UNCHANGED forkLists
  BY <1>2 DEF ForkListsInv
<1>3. ASSUME NEW forks \in Lists, NEW name, Cm!NewCustom(forks, name) PROVE ForkListsInv'
  <2>1. HashesAreOf(forks)
    BY <1>1, UnhashedLists
  <2> QED BY <1>3, <2>1, OneMoreList DEF Cm!NewCustom
<1>4. ASSUME NEW genesis \in Cm!Genesis, Cm!FromGqrlGenesis(genesis) PROVE ForkListsInv'
  <2>1. PICK forks : forks = IF genesis = "none" THEN Cm!ParseGqrlParams
                             ELSE Cm!WithForkHashes(Cm!ParseGqrlParams, genesis)
    OBVIOUS
  <2>2. genesis \in Cm!Genesis
    OBVIOUS
  <2>3. HashesAreOf(Cm!ParseGqrlParams)
    BY ZondIsUnhashed DEF Cm!ParseGqrlParams
  <2>4. HashesAreOf(forks)
    BY <2>1, <2>2, <2>3, FillingKeeps
  <2> QED BY <1>4, <2>1, <2>4, OneMoreList DEF Cm!FromGqrlGenesis
<1>5. ASSUME NEW n \in DOMAIN commons, NEW genesis \in GenesisHashes, Cm!SetForkHashes(n, genesis)
      PROVE  ForkListsInv'
  <2>1. PICK l : l = commons[n].list
    OBVIOUS
  <2>2. forkLists' = [forkLists EXCEPT ![l] = Cm!WithForkHashes(forkLists[l], genesis)]
    BY <1>5, <2>1 DEF Cm!SetForkHashes
  <2>3. genesis \in Cm!Genesis /\ forkLists \in Seq(Seq(Cm!HardforkConfig))
    BY <1>1 DEF ForkListsInv
  <2>4. ASSUME NEW k \in DOMAIN forkLists PROVE HashesAreOf(forkLists'[k])
    <3>1. HashesAreOf(forkLists[k])
      BY DEF ForkListsInv
    <3>2. HashesAreOf(Cm!WithForkHashes(forkLists[k], genesis))
      BY <2>3, <3>1, FillingKeeps
    <3> QED BY <2>2, <3>1, <3>2
  <2>5. DOMAIN forkLists' = DOMAIN forkLists
    BY <2>2
  <2>6. \A k \in DOMAIN forkLists : forkLists'[k] \in Seq(Cm!HardforkConfig)
    BY <2>4 DEF HashesAreOf
  <2>7. forkLists' \in Seq(Seq(Cm!HardforkConfig))
    <3>1. PICK m \in Nat : DOMAIN forkLists = 1..m
      BY <2>3
    <3>2. forkLists' = [k \in 1..m |-> forkLists'[k]]
      BY <2>2, <2>5, <3>1
    <3>3. \A k \in 1..m : forkLists'[k] \in Seq(Cm!HardforkConfig)
      BY <2>6, <3>1
    <3> QED BY <3>2, <3>3
  <2> QED BY <2>4, <2>5, <2>7 DEF ForkListsInv
<1> QED BY <1>2, <1>3, <1>4, <1>5 DEF Cm!Next, Cm!vars, Cm!NewOnMainnet, Cm!Copy, Cm!SetHardfork, Cm!SetsHardfork,
                                      Cm!SetChain, Cm!SetHardforkByBlockNumber

(* The invariant says that Common agrees with itself.                         *)
LEMMA ForkListsAgree ==
    ForkListsInv => ForksAgree
<1> SUFFICES ASSUME ForkListsInv PROVE Cm!ScheduleAgrees /\ Cm!ForkHashNamesFork
  BY DEF ForksAgree
<1>1. \A l \in DOMAIN forkLists : HashesAreOf(forkLists[l]) /\ forkLists[l] \in Seq(Cm!HardforkConfig)
  BY DEF ForkListsInv, HashesAreOf
<1>2. MaxBlock \in Nat /\ MaxTime \in Nat
  BY InstancesAssumption DEF Cm!ConstantsOK
<1>3. Cm!Blocks \subseteq Nat /\ Cm!Times \subseteq Nat \cup {-1}
  BY <1>2 DEF Cm!Blocks, Cm!Times, Cm!Null
<1>4. Cm!ScheduleAgrees
  <2> SUFFICES ASSUME NEW l \in DOMAIN forkLists, Cm!Ordered(forkLists[l])
               PROVE  /\ \A blk \in Cm!Blocks, t \in Cm!Times : Cm!FoundIsReached(forkLists[l], blk, t)
                      /\ \A blk \in Cm!Blocks : Cm!ActiveUpToFound(forkLists[l], blk)
                      /\ (\A h \in Cm!ToSet(Cm!Scheduled(forkLists[l])) : h.time = Cm!Null) =>
                            Cm!NextIsTheChange(forkLists[l])
    BY DEF Cm!ScheduleAgrees
  <2>1. PICK forks \in Seq(Cm!HardforkConfig) : forks = forkLists[l]
    BY <1>1
  <2>2. Cm!Ordered(forks)
    BY <2>1
  <2>3. \A blk \in Cm!Blocks, t \in Cm!Times : Cm!FoundIsReached(forks, blk, t)
    BY <1>3, <2>2, FoundReached
  <2>4. \A blk \in Cm!Blocks : Cm!ActiveUpToFound(forks, blk)
    BY <1>3, <2>2, ActiveOnBlock
  <2>5. (\A h \in Cm!ToSet(Cm!Scheduled(forks)) : h.time = Cm!Null) => Cm!NextIsTheChange(forks)
    BY <2>2, NextChanges
  <2> QED BY <2>1, <2>3, <2>4, <2>5
<1>5. Cm!ForkHashNamesFork
  <2> SUFFICES ASSUME NEW l \in DOMAIN forkLists, Cm!Ordered(forkLists[l]),
                      NEW i \in DOMAIN forkLists[l], forkLists[l][i].hash # Cm!NoHash
               PROVE  Cm!BlockOrTime(Cm!HardforkForForkHash(forkLists[l], forkLists[l][i].hash)) =
                         Cm!BlockOrTime(forkLists[l][i])
    BY DEF Cm!ForkHashNamesFork
  <2>1. PICK forks : forks = forkLists[l]
    OBVIOUS
  <2>2. HashesAreOf(forks) /\ Cm!Ordered(forks) /\ forks \in Seq(Cm!HardforkConfig) /\ forks[i].hash # Cm!NoHash
    BY <1>1, <2>1
  <2>3. i \in 1..Len(forks)
    BY <2>1, <2>2
  <2> QED BY <2>1, <2>2, <2>3, HashFindsFork
<1> QED BY <1>4, <1>5

(* The hardfork found for a block and a time is the last one reached, the     *)
(* active ones are those up to it, the next block is where the answer         *)
(* changes, and fork hashes on record find what they were computed for, in    *)
(* every behaviour of the accounts (common.ts).                               *)
THEOREM ForksAgreeHolds == MCSpec => []ForksAgree
<1>1. MCInit => ForkListsInv
  <2> SUFFICES ASSUME MCInit PROVE ForkListsInv
    OBVIOUS
  <2>1. forkLists = <<<<Cm!Zond>>>>
    BY DEF MCInit, Cm!Init
  <2>2. PICK forks : forks = <<Cm!Zond>>
    OBVIOUS
  <2>3. HashesAreOf(forks) /\ forks \in Seq(Cm!HardforkConfig)
    BY <2>2, ZondIsUnhashed DEF HashesAreOf
  <2>4. forkLists = <<forks>>
    BY <2>1, <2>2
  <2>5. forkLists \in Seq(Seq(Cm!HardforkConfig)) /\ \A l \in DOMAIN forkLists : forkLists[l] = forks
    BY <2>3, <2>4
  <2> QED BY <2>3, <2>5 DEF ForkListsInv
<1>2. ForkListsInv /\ [MCNext]_mcVars => ForkListsInv'
  <2> SUFFICES ASSUME ForkListsInv, [MCNext]_mcVars PROVE ForkListsInv'
    OBVIOUS
  <2>1. [Cm!Next]_(Cm!vars)
    BY DEF MCNext, mcVars, commonVars, Cm!vars
  <2> QED BY <2>1, ForkListsNext
<1> QED BY <1>1, <1>2, ForkListsAgree, PTL DEF MCSpec

-----------------------------------------------------------------------------
(* The accounts together.                                                     *)

AccountsInv == KeystoreInv /\ TxInv

(* The keystores and the transaction start in order.                          *)
LEMMA AccountsStart == MCInit => AccountsInv
<1> SUFFICES ASSUME MCInit PROVE AccountsInv
  OBVIOUS
<1>1. KeystoreInv
  BY DEF MCInit, Ks!Init, KeystoreInv, OpenedOK, Ks!KeystoresOpen
<1>2. /\ data = <<>> /\ options = Tt!NoOptions /\ tx = <<>> /\ signed = {} /\ returned = <<>>
      /\ wire = <<>> /\ parsed = {} /\ sender = {}
  BY DEF MCInit, Tt!Init
<1>3. data \in Seq(Tt!Byte) /\ options \in Choices
  BY <1>2 DEF Choices, Tt!NoOptions, Tt!Absent
<1>4. TxInv
  BY <1>2, <1>3 DEF TxInv, HeldOK, GivenOK, ReceivedOK, Tt!SenderSignedIt
<1> QED BY <1>1, <1>4 DEF AccountsInv

(* A step of either keeps its invariant and leaves the other's state alone.   *)
LEMMA AccountsStep == AccountsInv /\ [MCNext]_mcVars => AccountsInv'
<1> SUFFICES ASSUME AccountsInv, [MCNext]_mcVars PROVE AccountsInv'
  OBVIOUS
<1>1. [Ks!Next]_keystoreVars /\ [Tt!Next]_txVars
  BY DEF MCNext, mcVars
<1> QED BY <1>1, KeystoreStep, TxStep DEF AccountsInv

(* The accounts keep the invariant.                                           *)
THEOREM AccountsInvariant == MCSpec => []AccountsInv
BY AccountsStart, AccountsStep, PTL DEF MCSpec

(* KeystoresOpen, for any seeds, passwords, parameters and bounds of theirs:  *)
(* what account.encrypt() has made opens with its password to its account,    *)
(* and an edited keystore to no account it does not name.                     *)
THEOREM KeystoresOpenHolds == MCSpec => []KeystoresOpen
<1>1. AccountsInv => KeystoresOpen
  BY DEF AccountsInv, KeystoreInv, KeystoresOpen
<1> QED BY <1>1, AccountsInvariant, PTL

(* SenderSignedIt, for any transaction data and any alteration of the values  *)
(* on the wire: whoever recoverTransaction() attributes a transaction to has  *)
(* signed every field of it.                                                  *)
THEOREM SenderSignedItHolds == MCSpec => []SenderSignedIt
<1>1. AccountsInv => SenderSignedIt
  BY DEF AccountsInv, TxInv, SenderSignedIt
<1> QED BY <1>1, AccountsInvariant, PTL

(* ReceivedAsSent, for any transaction data, base of the bytes and limits: a  *)
(* transaction is received as it was sent, through the wire and JSON, and     *)
(* what signTransaction() gave away is valid and costs its maximum at most.   *)
THEOREM ReceivedAsSentHolds == MCSpec => []ReceivedAsSent
<1>1. AccountsInv => ReceivedAsSent
  BY ReceivedFromTxInv DEF AccountsInv, ReceivedAsSent
<1> QED BY <1>1, AccountsInvariant, PTL
===============================================================================
