------------------------------- MODULE Assets --------------------------------
(***************************************************************************)
(* Encrypted assets from the build to the game: asset_encryptor writes     *)
(* them (build/asset_encryptor/src/encrypt.rs), EncryptedAssetReader reads *)
(* them with the key SessionKeyStore holds at that moment                  *)
(* (engine/bevy_runtime/src/asset_decryption.rs).  Readers are tasks; each *)
(* looks for a key, awaits the file and then decrypts it with the lock     *)
(* held, while the owner of the store sets, rotates and clears the key.    *)
(* Sizes are in some unit; the content of a file is the list of its        *)
(* chunks; encryption is perfect.                                          *)
(***************************************************************************)
EXTENDS Integers, Sequences, FiniteSets

CONSTANTS
  Readers, Keys,
  L1_CACHE_SIZE, CIPHERTEXT_MIN_LEN,
  WORD,            \* size of a count or length in the chunked format
  AssetSizes,      \* plaintext of a chunk or of a file
  MaxChunks, MaxReads, MaxKeyChanges  \* bounds of the model

ASSUME AssetsConstants ==
  /\ {L1_CACHE_SIZE, CIPHERTEXT_MIN_LEN, WORD, MaxChunks} \subseteq Nat \ {0}
  /\ AssetSizes \subseteq Nat /\ {MaxReads, MaxKeyChanges} \subseteq Nat

VARIABLES
  asset_file,   \* [key, format, sizes, lost]: how it was encrypted and what of its end is missing
  store,        \* SessionKeyStore: a key or NoKey
  reader,       \* of each reader: [pc, steady, result, text]
  reads,        \* auxiliary: reads so far
  key_changes   \* auxiliary

assetFileVars == <<asset_file, store, reader, reads, key_changes>>

NoKey == "none"

\* steady, auxiliary: the store has held the file's key ever since the reader looked.
NotReading == [pc |-> "idle", steady |-> FALSE, result |-> "none", text |-> <<>>]

-----------------------------------------------------------------------------
(* Files *)

\* encrypt_file: one message, whatever the size.
EncryptedFile(k, size) == [key |-> k, format |-> "one", sizes |-> <<size>>, lost |-> 0]

\* The chunked format decrypt_all reads above the limit; its writer is external.
ChunkedFile(k, sizes) == [key |-> k, format |-> "chunks", sizes |-> sizes, lost |-> 0]

\* Where the i-th chunk of a chunked file ends.
EndOf(f, i) ==
  LET end[n \in 0 .. Len(f.sizes)] ==
        IF n = 0 THEN WORD ELSE end[n - 1] + WORD + f.sizes[n] + CIPHERTEXT_MIN_LEN
  IN  end[i]

Whole(f) == IF f.format = "one" THEN f.sizes[1] + CIPHERTEXT_MIN_LEN ELSE EndOf(f, Len(f.sizes))
Length(f) == Whole(f) - f.lost

\* The plaintext: a chunk is its number and its size.
Content(f) == [i \in DOMAIN f.sizes |-> <<i, f.sizes[i]>>]

-----------------------------------------------------------------------------
(* EncryptedAssetReader *)

\* A reader that takes a file of the full size for a chunked one.
SingleChunk_Mut(n) == n < L1_CACHE_SIZE + CIPHERTEXT_MIN_LEN

\* decrypt_all tells the formats apart by the length only.
SingleChunk(n) == n <= L1_CACHE_SIZE + CIPHERTEXT_MIN_LEN

Failed(why) == [result |-> why, text |-> <<>>]

\* decrypt_chunk of the whole file
DecryptWhole(k, f) ==
  IF Length(f) < CIPHERTEXT_MIN_LEN THEN Failed("InvalidFormat")
  ELSE IF f.format = "one" /\ f.lost = 0 /\ f.key = k THEN [result |-> "ok", text |-> Content(f)]
  ELSE Failed("AuthTagMismatch")

\* The chunks of a chunked file at which the walk stops: not all there, larger
\* than the staging buffer, or encrypted with another key.
Truncated(f, i) == EndOf(f, i) > Length(f)
Oversized(f, i) == f.sizes[i] > L1_CACHE_SIZE
BadChunks(k, f) == {i \in DOMAIN f.sizes : Truncated(f, i) \/ Oversized(f, i) \/ f.key # k}

\* The walk over the chunks; what was decrypted before a failure is wiped.
DecryptChunks(k, f) ==
  LET bad   == BadChunks(k, f)
      first == CHOOSE i \in bad : \A j \in bad : i <= j
  IN  IF bad = {} THEN [result |-> "ok", text |-> Content(f)]
      ELSE Failed(IF Truncated(f, first) \/ Oversized(f, first) THEN "ChunkError" ELSE "AuthTagMismatch")

\* decrypt_all: its outcomes.  The count and the lengths it finds in a file that
\* has none are any numbers, the count 0 among them.
DecryptAll(k, f) ==
  IF k = NoKey THEN {Failed("NoSessionKey")}
  ELSE IF SingleChunk(Length(f)) THEN {DecryptWhole(k, f)}
  ELSE IF f.format = "one" THEN {Failed("ChunkError"), Failed("AuthTagMismatch"), Failed("ok")}
  ELSE {DecryptChunks(k, f)}

AssetsInit ==
  /\ \E k \in Keys, n \in 1 .. MaxChunks : \E sizes \in [1 .. n -> AssetSizes] :
       asset_file \in {EncryptedFile(k, sizes[1]), ChunkedFile(k, sizes)}
  /\ store = NoKey
  /\ reader = [r \in Readers |-> NotReading]
  /\ reads = 0 /\ key_changes = 0

\* read, as far as the await: no key is an error at once.
BeginRead(r) ==
  /\ reader[r].pc = "idle" /\ reads < MaxReads /\ reads' = reads + 1
  /\ reader' = [reader EXCEPT ![r] =
       IF store = NoKey THEN [NotReading EXCEPT !.result = "NoSessionKey"]
       ELSE [NotReading EXCEPT !.pc = "reading", !.steady = store = asset_file.key]]
  /\ UNCHANGED <<asset_file, store, key_changes>>

\* The inner reader fails.
ReadFails(r) ==
  /\ reader[r].pc = "reading"
  /\ reader' = [reader EXCEPT ![r] = [NotReading EXCEPT !.result = "IoError"]]
  /\ UNCHANGED <<asset_file, store, reads, key_changes>>

\* The rest of read, with the file's bytes: AuthTagMismatch is a panic of the task.
FinishRead(r) ==
  /\ reader[r].pc = "reading"
  /\ \E out \in DecryptAll(store, asset_file) :
       reader' = [reader EXCEPT ![r] = [pc |-> IF out.result = "AuthTagMismatch" THEN "panicked" ELSE "idle",
                                        steady |-> reader[r].steady, result |-> out.result, text |-> out.text]]
  /\ UNCHANGED <<asset_file, store, reads, key_changes>>

ChangeKey(k) ==
  /\ key_changes < MaxKeyChanges /\ key_changes' = key_changes + 1
  /\ store' = k
  /\ reader' = [r \in Readers |-> IF reader[r].pc = "reading" /\ k # asset_file.key
                                  THEN [reader[r] EXCEPT !.steady = FALSE] ELSE reader[r]]
  /\ UNCHANGED <<asset_file, reads>>

\* set_key, store_key and rotate
StoreKey(k) == ChangeKey(k)

ClearKey == ChangeKey(NoKey)

\* A part of the end of the file is lost on its way (external).
LoseEnd(n) ==
  /\ n < Length(asset_file) /\ asset_file.lost = 0
  /\ \A r \in Readers : reader[r] = NotReading
  /\ asset_file' = [asset_file EXCEPT !.lost = n]
  /\ UNCHANGED <<store, reader, reads, key_changes>>

AssetsNext ==
  \/ \E r \in Readers : BeginRead(r) \/ ReadFails(r) \/ FinishRead(r)
  \/ \E k \in Keys : StoreKey(k)
  \/ ClearKey
  \/ \E n \in {1, CIPHERTEXT_MIN_LEN} : LoseEnd(n)

AssetsSpec == AssetsInit /\ [][AssetsNext]_assetFileVars

-----------------------------------------------------------------------------
\* A file in the format that decrypt_all expects of its size.
WellFormed(f) ==
  IF f.format = "one" THEN f.sizes[1] <= L1_CACHE_SIZE
  ELSE /\ Whole(f) > L1_CACHE_SIZE + CIPHERTEXT_MIN_LEN
       /\ \A i \in DOMAIN f.sizes : f.sizes[i] <= L1_CACHE_SIZE

Finished(t) == t.pc # "reading"

\* However the key changes while the file is awaited, and whatever is lost of the
\* file's end, the game gets the whole content or none of it; and a reader whose
\* key was right all the time gets it, at the limits of the sizes too.  Files of
\* the wrong format are the exception: they may even be read as empty.
DeliveredIntact ==
  \A r \in Readers :
    LET t == reader[r]
    IN  /\ (t.result = "ok" /\ WellFormed(asset_file)) => (t.text = Content(asset_file) /\ asset_file.lost = 0)
        /\ (t.steady /\ Finished(t) /\ WellFormed(asset_file) /\ asset_file.lost = 0) => t.result = "ok"

\* "Reads the ciphertext through the inner reader, decrypts it and returns the
\* plaintext": what the build's encryptor wrote is read, with its key.
EncryptedAssetsRead ==
  \A r \in Readers :
    (/\ reader[r].steady /\ Finished(reader[r])
     /\ asset_file.format = "one" /\ asset_file.lost = 0) => reader[r].text = Content(asset_file)
=============================================================================
