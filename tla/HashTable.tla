----------------------------- MODULE HashTable -----------------------------
(***************************************************************************)
(* The chained hash table of src/kernel/libc/hashtable.c.  A bucket is the *)
(* sequence of its entries from the head on; kmalloc may answer NULL at    *)
(* any call, also inside strdup, and then the entry's key is NULL.  strcmp *)
(* does not stop at NULL: it reads the text that stands at address 0.      *)
(***************************************************************************)
EXTENDS Integers, Sequences, FiniteSets, FiniteSetsExt, SequencesExt

CONSTANTS Keys,        \* the texts
          AtZero,      \* the one that stands at address 0
          Values,
          TableSize,   \* number of buckets, table->size
          Hash,        \* hash_function
          MaxUnnamed   \* bound on the entries whose key is NULL

ASSUME HashTableAssumption ==
  /\ "NULL" \notin Keys \cup Values /\ AtZero \in Keys
  /\ TableSize \in Nat \ {0} /\ Hash \in [Keys -> Nat] /\ MaxUnnamed \in Nat

VARIABLES table,   \* None, or the buckets 0 .. TableSize - 1
          map      \* what the caller inserted and did not remove

hashVars == <<table, map>>

NoEntry == "NULL"     \* neither a text nor a value

None == [b \in {} |-> <<>>]

Index(k) == Hash[k] % TableSize

TextAt(p) == IF p = NoEntry THEN AtZero ELSE p

(* The loops over a bucket: the first entry whose key reads as k, or 0.    *)
Position(bucket, k) == LET hits == {i \in DOMAIN bucket : TextAt(bucket[i].key) = k}
                       IN IF hits = {} THEN 0 ELSE Min(hits)

(* Where the entries with a given key pointer are, over all buckets.       *)
Places(key) == UNION {{<<b, i>> : i \in {j \in DOMAIN table[b] : table[b][j].key = key}} : b \in DOMAIN table}

HashInit == table = None /\ map = [k \in {} |-> NoEntry]

hash_table_create ==
  /\ table = None
  /\ \/ table' = [b \in 0 .. TableSize - 1 |-> <<>>]
     \/ UNCHANGED table                       \* out of memory
  /\ UNCHANGED map

Bind(k, v) == map' = [j \in DOMAIN map \cup {k} |-> IF j = k THEN v ELSE map[j]]

Update(k, v, i) == /\ i # 0
                   /\ table' = [table EXCEPT ![Index(k)][i].value = v]
                   /\ Bind(k, v)

Push(b, key, v) == table' = [table EXCEPT ![b] = <<[key |-> key, value |-> v]>> \o @]

InsertBlind(k, v) ==   \* mutant: does not look for an existing entry
  Push(Index(k), k, v) /\ Bind(k, v)

hash_table_insert(k, v) ==
  LET i == Position(table[Index(k)], k)
  IN \/ Update(k, v, i)
     \/ i = 0 /\ Push(Index(k), k, v) /\ Bind(k, v)
     \/ i = 0 /\ UNCHANGED hashVars               \* no memory for the entry
     \/ /\ i = 0 /\ Cardinality(Places(NoEntry)) < MaxUnnamed  \* no memory for the key
        /\ Push(Index(k), NoEntry, v)
        /\ UNCHANGED map

Unlink(bucket, i) == RemoveAt(bucket, i)

hash_table_remove(k) ==
  LET i == Position(table[Index(k)], k)
  IN \/ i = 0 /\ UNCHANGED hashVars
     \/ /\ i # 0
        /\ table' = [table EXCEPT ![Index(k)] = Unlink(@, i)]
        /\ map' = [j \in DOMAIN map \ {k} |-> map[j]]

(* The guard of hash_table_lookup turns every text away, and NULL is       *)
(* searched for as the text at address 0.                                  *)
hash_table_lookup(p) ==
  LET bucket == table[Index(TextAt(p))]
      i == Position(bucket, TextAt(p))
  IN IF table = None \/ p # NoEntry \/ i = 0 THEN NoEntry ELSE bucket[i].value

HashNext == \/ hash_table_create
            \/ table # None /\ \E k \in Keys, v \in Values : hash_table_insert(k, v)
            \/ table # None /\ \E k \in Keys : hash_table_remove(k)

HashSpec == HashInit /\ [][HashNext]_hashVars
-----------------------------------------------------------------------------
(* The chains hold the caller's map, whatever was inserted, updated and    *)
(* removed in buckets shared by several keys, and whichever allocation     *)
(* failed: a bound key has one entry in the whole table, in its bucket,    *)
(* with the value inserted last, and another key has none.  Entries that   *)
(* lost their key to a failed strdup, and are updated and removed in place *)
(* of the text at address 0, cost no other key its entry.                  *)
ChainsHoldMap ==
  table # None =>
    \A k \in Keys \ {AtZero} :
      IF k \in DOMAIN map
      THEN \E i \in DOMAIN table[Index(k)] :
             Places(k) = {<<Index(k), i>>} /\ table[Index(k)][i].value = map[k]
      ELSE Places(k) = {}

(* "int pid = (int)hash_table_lookup(pids, "init"); // Returns 1", after   *)
(* the insertion of 1 for "init" on the line before: a lookup returns what *)
(* was inserted.                                                           *)
LookupReturnsInserted ==
  table # None => \A k \in DOMAIN map : hash_table_lookup(k) = map[k]
=============================================================================
