------------------------------- MODULE Keystore -------------------------------
(* Accounts and keystores of web3-qrl-accounts: seedToAccount(), encrypt()    *)
(* and decrypt(), with the array the application passes a seed in. Arrays are *)
(* passed by reference, and encrypt() reads its own twice, before and after   *)
(* it waits for the cipher. A seed stands for the key and the address that    *)
(* are derived from it.                                                       *)
EXTENDS Integers, Sequences, FiniteSets

CONSTANTS
    Seeds,
    Junk,           \* the contents of an array that is no extended seed
    Passwords,      \* sequences of characters; 0 is the null character
    Bounds,         \* ARGON2ID_BOUNDS: min and max of every parameter
    Params,         \* the parameters encrypt() is given
    KeyBytes,       \* the length of an AES-256 key
    MaxKeystores,   \* bound: keystores made
    None

ConstantsOK ==
    /\ Junk \notin Seeds /\ MaxKeystores \in Nat
    /\ \A p \in Params : DOMAIN p = DOMAIN Bounds

VARIABLES
    array,          \* what the application's array holds
    account,        \* address, seed and what its sign() refers to, or None
    job,            \* the encryption under way, or None
    keystores,      \* the keystores made, with what encrypt() was asked for
    opened,         \* the last decrypt(): its keystore, password and account
    signatures      \* what account.sign() was called on and whose key signed

vars == <<array, account, job, keystores, opened, signatures>>

Init ==
    /\ array \in Seeds
    /\ account = None /\ job = None /\ opened = None
    /\ keystores = <<>>
    /\ signatures = {}

-----------------------------------------------------------------------------
(* utf8ToHex(): one null character goes at either end.                        *)
PasswordBytes(p) ==
    LET front == IF p # <<>> /\ p[1] = 0 THEN Tail(p) ELSE p
    IN  IF front # <<>> /\ front[Len(front)] = 0 THEN SubSeq(front, 1, Len(front) - 1) ELSE front

(* validateArgon2idParams().                                                  *)
ValidateArgon2idParams(params) ==
    \A p \in DOMAIN Bounds : params[p] \in Bounds[p].min..Bounds[p].max

(* argon2idSync(), with the salt of the keystore: external.                   *)
DerivedKey(password, params) == <<PasswordBytes(password), params>>

(* parseAndValidateSeed(): an array or string that holds an extended seed.    *)
HoldsSeed(content) == content \in Seeds

(* seedToAccount() of the array, or of a hex string with what it holds. The   *)
(* account's seed is a copy, its sign() refers to what was given.             *)
SeedToAccount(form) ==
    /\ account = None
    /\ HoldsSeed(array)
    /\ account' = [address |-> array, seed |-> array, form |-> form]
    /\ UNCHANGED <<array, job, keystores, opened, signatures>>

(* The application clears the array, or reuses it for another seed.           *)
Overwrite(content) ==
    /\ content # array
    /\ array' = content
    /\ UNCHANGED <<account, job, keystores, opened, signatures>>

(* account.sign(): throws if the array holds no seed any more.                *)
SignerOf(a) == IF a.form = "array" THEN array ELSE a.seed

Sign ==
    /\ account # None
    /\ HoldsSeed(SignerOf(account))
    /\ signatures' = signatures \cup {[account |-> account.address, key |-> SignerOf(account)]}
    /\ UNCHANGED <<array, account, job, keystores, opened>>

(* encrypt() up to its wait for the cipher: the seed, the password and the    *)
(* parameters are checked, the key derived, the seed handed to the cipher.    *)
EncryptStarts(by, source, seed, password, params) ==
    /\ job = None /\ Len(keystores) < MaxKeystores
    /\ HoldsSeed(seed)
    /\ ValidateArgon2idParams(params)
    /\ params["dklen"] = KeyBytes
    /\ job' = [by |-> by, source |-> source, seed |-> seed, password |-> password, params |-> params]
    /\ UNCHANGED <<array, account, keystores, opened, signatures>>

(* encrypt(array).                                                            *)
Encrypt(password, params) == EncryptStarts("caller", "array", array, password, params)

FaultAccountEncrypt(password, params) ==
    /\ account # None
    /\ EncryptStarts("account", account.form, SignerOf(account), password, params)

(* account.encrypt(): of a copy of the account's seed.                        *)
AccountEncrypt(password, params) ==
    /\ account # None
    /\ EncryptStarts("account", "copy", account.seed, password, params)

(* The cipher, external, has read the seed when it was called or reads it     *)
(* before it is done; the address is that of the array as it is by then. An   *)
(* array that holds no seed is refused.                                       *)
EncryptEnds ==
    /\ job # None
    /\ LET now == IF job.source = "array" THEN array ELSE job.seed IN
       \/ /\ HoldsSeed(now)
          /\ \E plain \in {job.seed, now} :
                keystores' = Append(keystores,
                    [version |-> 1, address |-> now, kdf |-> "argon2id", params |-> job.params,
                     key |-> DerivedKey(job.password, job.params), plain |-> plain, asked |-> job])
       \/ ~HoldsSeed(now) /\ UNCHANGED keystores
    /\ job' = None
    /\ UNCHANGED <<array, account, opened, signatures>>

(* What the keystore file may be edited to: everything but its ciphertext is  *)
(* unauthenticated, and an edited ciphertext fits no key.                     *)
Edited(k) ==
    {k} \cup {[k EXCEPT !.version = 3]} \cup {[k EXCEPT !.kdf = "scrypt"]}
        \cup {[k EXCEPT !.address = s] : s \in Seeds}
        \cup {[k EXCEPT !.params = p] : p \in Params}
        \cup {[k EXCEPT !.key = <<>>]}

(* decrypt(): the account, or None for a refusal.                             *)
Decrypted(k, password) ==
    IF /\ k.version = 1
       /\ k.kdf = "argon2id"
       /\ ValidateArgon2idParams(k.params)
       /\ DerivedKey(password, k.params) = k.key
       /\ k.plain = k.address
    THEN k.plain ELSE None

Decrypt(n, password) ==
    /\ \E k \in Edited(keystores[n]) :
          opened' = [asked |-> k.asked, edited |-> k # keystores[n], password |-> password,
                     label |-> k.address, account |-> Decrypted(k, password)]
    /\ UNCHANGED <<array, account, job, keystores, signatures>>

Next ==
    \/ \E form \in {"array", "hex"} : SeedToAccount(form)
    \/ \E content \in Seeds \cup {Junk} : Overwrite(content)
    \/ Sign \/ EncryptEnds
    \/ \E password \in Passwords, params \in Params :
          Encrypt(password, params) \/ AccountEncrypt(password, params)
    \/ \E n \in DOMAIN keystores, password \in Passwords : Decrypt(n, password)

Spec == Init /\ [][Next]_vars

-----------------------------------------------------------------------------
(* What account.encrypt() has made opens with its password, or with one that  *)
(* differs in a null character at its ends only, to the account it was made   *)
(* of, whatever the application did to its array while the cipher ran; no     *)
(* edited keystore opens to an account it does not name.                      *)
KeystoresOpen ==
    opened # None =>
        /\ opened.asked.by = "account" /\ ~opened.edited =>
              opened.account =
                 IF PasswordBytes(opened.password) = PasswordBytes(opened.asked.password)
                 THEN account.address ELSE None
        /\ opened.account # None => opened.account = opened.label
                                 /\ \/ opened.account = opened.asked.seed
                                    \/ opened.asked.by = "caller"

-----------------------------------------------------------------------------
(* What comments, tests and documents say and the code does not do.           *)

(* sign() "Signs arbitrary data with the private key derived from the given   *)
(* seed" (account.ts:122), and an account is what seedToAccount() got "from   *)
(* the seed" (account.ts:412): it signs with the key of its address.          *)
SignsAsItself == \A s \in signatures : s.key = s.account

(* "encrypt a private key seed with a password, returns a V1 JSON Keystore"   *)
(* (account.ts:254), of the seed encrypt() was called with.                   *)
EncryptsWhatWasGiven ==
    \A n \in DOMAIN keystores : keystores[n].plain = keystores[n].asked.seed
                                /\ keystores[n].address = keystores[n].asked.seed
===============================================================================
