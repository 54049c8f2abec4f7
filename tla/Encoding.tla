------------------------------ MODULE Encoding ------------------------------
(***************************************************************************)
(* The bytes between a call of the client and the contract that executes   *)
(* it: the calldata BLSValidatorsContract and MerkleTreeCreator write, the *)
(* hash that is signed, the serialised transaction, and what the node and  *)
(* the contract read out of it.                                            *)
(*                                                                         *)
(* A text is a sequence of characters: the hexadecimal digits 0..15 and    *)
(* the letter of the prefix `0x', which is X.  A word has 32 bytes.        *)
(***************************************************************************)
EXTENDS Integers, SequencesExt

CONSTANTS
    Selectors,   \* Selectors[f]: the first four bytes of keccak of f's signature
    Addresses,   \* addresses, each of 20 bytes
    Keys,        \* public keys, each a record of the words x and y
    Signatures,  \* BLS signatures, each a record of the words xa, xb, ya and yb
    Hashes,      \* words: results of HashModulus, and hashes in a tree
    IndexLists,  \* the lists of indices of a check
    Proofs,      \* paths in the tree, each a sequence of words
    Quantities,  \* the amounts of leaves
    Contract,    \* the address of the contract the calls go to
    Populations, \* what populateTransaction may find: chain, count and fees
    Secp,        \* signatures of secp256k1: records of the words r and s, and recid
    TooLarge     \* bound: numbers from this one on are not told apart

VARIABLES
    pc,       \* the step the call is at
    call,     \* the contract's function and the arguments that are meant
    hashed,   \* the bytes the client hashes itself for this call
    tx,       \* the Transaction object; for a read, its data only
    signed,   \* the bytes whose hash was signed, and the signature
    raw,      \* the text handed to the node
    received  \* what the node and the contract read

vars == <<pc, call, hashed, tx, signed, raw, received>>

X == 16
Prefix == <<0, X>>
WordBytes == 32
Byte == 0..255
Word == [1..WordBytes -> Byte]
Numbers == 0..(TooLarge - 1)

HasPrefix(text) == Len(text) >= 2 /\ text[1] = 0 /\ text[2] = X
WithoutPrefix(text) == IF HasPrefix(text) THEN SubSeq(text, 3, Len(text)) ELSE text

(***************************************************************************)
(* Numbers, bytes and texts.                                               *)
(***************************************************************************)
\* What is left of a number without its last so many digits.
Shifted(n) ==
    LET shifted[places \in 0..(2 * WordBytes)] ==
            IF places = 0 THEN n ELSE shifted[places - 1] \div 16
    IN  shifted

\* A uint64_t has at most MaxDigits digits.
MaxDigits == 16
decimalToHex(n) ==
    LET digits == CHOOSE d \in 1..MaxDigits :
                      Shifted(n)[d] = 0 /\ (d > 1 => Shifted(n)[d - 1] # 0)
    IN  [i \in 1..digits |-> Shifted(n)[digits - i] % 16]

toHexString(bytes) ==
    [i \in 1..(2 * Len(bytes)) |-> IF i % 2 = 1 THEN bytes[(i + 1) \div 2] \div 16
                                                ELSE bytes[i \div 2] % 16]

\* A digit left over at the end makes a byte of its own.
fromHexString(text) ==
    LET hex == WithoutPrefix(text)
    IN  [i \in 1..((Len(hex) + 1) \div 2) |->
            IF 2 * i <= Len(hex) THEN 16 * hex[2 * i - 1] + hex[2 * i] ELSE hex[2 * i - 1]]

intToBytes(n) ==
    LET hex == decimalToHex(n)
    IN  IF n = 0 THEN <<>>
        ELSE fromHexString(IF Len(hex) % 2 = 1 THEN <<0>> \o hex ELSE hex)

\* The bytes as they are.
removeLeadingZerosNot(bytes) == bytes

removeLeadingZeros(bytes) ==
    LET significant == {i \in DOMAIN bytes : bytes[i] # 0}
    IN  IF significant = {} THEN <<>> ELSE SubSeq(bytes, Min(significant), Len(bytes))

\* One digit short.
padTo32BytesShort(text) == [i \in 1..(63 - Len(text)) |-> 0] \o text

\* The padding is counted from the length with the prefix, so that a text that
\* has one comes out two digits short.  A text too long throws; none is passed.
\* Padding on the right has no caller.
padTo32Bytes(text) ==
    LET digits == WithoutPrefix(text)
        filled == IF Len(digits) < 64 THEN [i \in 1..(64 - Len(text)) |-> 0] \o digits
                                      ELSE digits
    IN  IF HasPrefix(text) THEN Prefix \o filled ELSE filled

\* The bytes that go into keccak: a text with a prefix is read as hexadecimal.
hash(text) == IF HasPrefix(text) THEN fromHexString(text) ELSE text

getFunctionSignature(f) == Prefix \o toHexString(Selectors[f])

PublicKeyToHex(key) == toHexString(key.x \o key.y)

\* The imaginary part of y before its real one.
SignatureToHexSwapped(sig) == toHexString(sig.xa \o sig.xb \o sig.yb \o sig.ya)

SignatureToHex(sig) == toHexString(sig.xa \o sig.xb \o sig.ya \o sig.yb)

(***************************************************************************)
(* The calldata of each call.                                              *)
(***************************************************************************)
padded(n) == padTo32Bytes(decimalToHex(n))
Message(h) == padTo32Bytes(toHexString(h))

\* An offset of five words.
ListedEarly(offset, list) ==
    padded(160) \o padded(Len(list)) \o FlattenSeq([i \in DOMAIN list |-> padded(list[i])])

\* A list is an offset in bytes from the first argument, its length, its items.
Listed(offset, list) ==
    padTo32Bytes(offset) \o padded(Len(list)) \o FlattenSeq([i \in DOMAIN list |-> padded(list[i])])

Amount == 15000
addValidator(key) ==
    getFunctionSignature("addValidator") \o PublicKeyToHex(key) \o padded(Amount)
clear == getFunctionSignature("clearValidators")
checkSigAGG(sig, h) ==
    getFunctionSignature("checkSigAGG") \o SignatureToHex(sig) \o Message(h)
checkAggPubkey(key) == getFunctionSignature("checkAggPubkey") \o PublicKeyToHex(key)
checkSigAGGIndices(f, sig, h, indices) ==
    getFunctionSignature(f) \o SignatureToHex(sig) \o Message(h) \o Listed(<<12, 0>>, indices)
validateProofOfPossession(key, sig) ==
    getFunctionSignature("validateProofOfPossession") \o PublicKeyToHex(key) \o SignatureToHex(sig)
calcField(key) == getFunctionSignature("calcField") \o PublicKeyToHex(key)
updateRewardsMerkleRoot(root) ==
    getFunctionSignature("updateRewardsMerkleRoot") \o toHexString(root)
validateProof(quantity, path) ==
    getFunctionSignature("validateProof") \o padded(quantity) \o padded(64)
        \o padded(Len(path)) \o FlattenSeq([i \in DOMAIN path |-> toHexString(path[i])])
contractHash(address, balance) ==
    getFunctionSignature("hash") \o padTo32Bytes(WithoutPrefix(address)) \o padded(balance)

\* What proofOfPossession hashes, and what a leaf is the hash of.
PossessionText(key) == Prefix \o PublicKeyToHex(key)

\* The prefix of the address is left to padTo32Bytes.
abiEncodePrefixed(address, balance) ==
    Prefix \o WithoutPrefix(padTo32Bytes(address)) \o padded(balance)

abiEncode(address, balance) ==
    Prefix \o padTo32Bytes(WithoutPrefix(address)) \o padded(balance)

(***************************************************************************)
(* The transaction: what is signed, and what is sent.                      *)
(***************************************************************************)
\* RLP, which the program takes from a library.
Length(bytes, short, long) ==
    IF Len(bytes) <= 55 THEN <<short + Len(bytes)>>
    ELSE <<long + Len(intToBytes(Len(bytes)))>> \o intToBytes(Len(bytes))
RLPBytes(bytes) ==
    IF Len(bytes) = 1 /\ bytes[1] < 128 THEN bytes
    ELSE Length(bytes, 128, 183) \o bytes
RLPList(items) ==
    LET body == FlattenSeq(items) IN Length(body, 192, 247) \o body

NoSignature == [signatureYParity |-> 0, signatureR |-> <<>>, signatureS |-> <<>>]
isEmpty(sig) == sig = NoSignature

Transaction(gasLimit, data) ==
    [chainId |-> 0, nonce |-> 0, maxPriorityFeePerGas |-> 0, maxFeePerGas |-> 0,
     gasLimit |-> gasLimit, to |-> Prefix \o toHexString(Contract), value |-> 0,
     data |-> data, sig |-> NoSignature]

TypeByte == 2
serialized(t) ==
    LET number(n) == RLPBytes(intToBytes(n))
        fields == <<number(t.chainId), number(t.nonce), number(t.maxPriorityFeePerGas),
                    number(t.maxFeePerGas), number(t.gasLimit), RLPBytes(fromHexString(t.to)),
                    number(t.value), RLPBytes(fromHexString(t.data)), RLPList(<<>>)>>
        sig    == IF isEmpty(t.sig) THEN <<>>
                  ELSE <<number(t.sig.signatureYParity),
                         RLPBytes(removeLeadingZeros(t.sig.signatureR)),
                         RLPBytes(removeLeadingZeros(t.sig.signatureS))>>
    IN  Prefix \o toHexString(<<TypeByte>> \o RLPList(fields \o sig))

\* The digits of r, of s and of the recovery number.
fromHex(text) ==
    [signatureR |-> fromHexString(SubSeq(text, 1, 64)),
     signatureS |-> fromHexString(SubSeq(text, 65, 128)),
     signatureYParity |-> 16 * text[129] + text[130]]

(***************************************************************************)
(* What the node and the contract read.                                    *)
(***************************************************************************)
Rejected == [accepted |-> FALSE]

\* A number of big-endian bytes; all that do not fit are as good as each other.
NumberOf(bytes) ==
    LET number[k \in 0..Len(bytes)] ==
            IF k = 0 THEN 0
            ELSE LET high == number[k - 1]
                 IN  IF high > (TooLarge - bytes[k]) \div 256 THEN TooLarge
                     ELSE 256 * high + bytes[k]
    IN  number[Len(bytes)]

\* Bytes from a position counted from 1, and none if they reach past the end.
Bytes(bytes, from, length) ==
    IF length <= Len(bytes) - from + 1 THEN SubSeq(bytes, from, from + length - 1) ELSE <<>>

\* The item that begins at a position: its kind, its body and where it ends.
\* Only the shortest form is accepted.
ItemAt(bytes, at) ==
    LET first    == bytes[at]
        list     == first >= 192
        short    == IF list THEN 192 ELSE 128
        own      == first < 128
        long     == first - short > 55
        lengths  == Bytes(bytes, at + 1, first - short - 55)
        length   == IF own THEN 1 ELSE IF long THEN NumberOf(lengths) ELSE first - short
        from     == IF own THEN at ELSE IF long THEN at + 1 + Len(lengths) ELSE at + 1
        fits     == length <= Len(bytes) - from + 1
        body     == IF fits THEN SubSeq(bytes, from, from + length - 1) ELSE <<>>
    IN  [list |-> list, body |-> body, next |-> IF fits THEN from + length ELSE Len(bytes) + 1,
         valid |-> /\ fits
                   /\ long => length > 55 /\ lengths # <<>> /\ lengths[1] # 0
                   /\ ~own /\ ~list /\ length = 1 => body[1] >= 128]

Items(bytes) ==
    LET from[at \in 1..(Len(bytes) + 1)] ==
            IF at > Len(bytes) THEN <<>>
            ELSE <<ItemAt(bytes, at)>> \o from[ItemAt(bytes, at).next]
    IN  from[1]

\* A number of a transaction has no leading zeros.
Canonical(bytes) == bytes # <<>> => bytes[1] # 0

\* The parameters of the functions of BLSValidators and MerkleRewards.
Parameters == [
    addValidator |-> <<"pkX", "pkY", "amount">>, clearValidators |-> <<>>,
    checkSigAGG |-> <<"sigs0", "sigs1", "sigs2", "sigs3", "message">>,
    checkAggPubkey |-> <<"pkX", "pkY">>,
    checkSigAGGIndices |-> <<"sigs0", "sigs1", "sigs2", "sigs3", "message", "indices">>,
    checkSigAGGNegateIndices |-> <<"sigs0", "sigs1", "sigs2", "sigs3", "message", "indices">>,
    validateProofOfPossession |-> <<"pkX", "pkY", "sigs0", "sigs1", "sigs2", "sigs3">>,
    calcField |-> <<"pkX", "pkY">>, updateRewardsMerkleRoot |-> <<"_merkleRoot">>,
    validateProof |-> <<"_quantity", "_merkleProof">>, hash |-> <<"target", "balance">>]
Sigs == {"sigs0", "sigs1", "sigs2", "sigs3"}
IsList(parameter) == parameter \in {"indices", "_merkleProof"}

Functions == DOMAIN Parameters

\* The constants have the shapes above, and no two functions share a selector.
ASSUME ShapesAssumption ==
    /\ DOMAIN Selectors = Functions
    /\ \A f \in Functions : Selectors[f] \in [1..4 -> Byte]
    /\ \A f, g \in Functions : Selectors[f] = Selectors[g] => f = g
    /\ Contract \in [1..20 -> Byte] /\ Addresses \subseteq [1..20 -> Byte]
    /\ Keys \subseteq [x : Word, y : Word]
    /\ Signatures \subseteq [xa : Word, xb : Word, ya : Word, yb : Word]
    /\ Hashes \subseteq Word /\ Proofs \subseteq Seq(Word)
    /\ Secp \subseteq [r : Word, s : Word, recid : 0..3]

\* Numbers fit in 64 bits.  A list too long for its calldata to have a length that is
\* told apart would not be paid for by the gas of any block.
ASSUME NumbersAssumption ==
    /\ TooLarge \in Nat /\ TooLarge > 30004000 /\ Shifted(TooLarge)[MaxDigits] = 0
    /\ Quantities \subseteq Numbers /\ IndexLists \subseteq Seq(Numbers)
    /\ Populations \subseteq [chainId : Numbers, nonce : Numbers,
                               maxPriorityFeePerGas : Numbers, maxFeePerGas : Numbers]
    /\ \A list \in IndexLists : WordBytes * (Len(list) + 32) < TooLarge
    /\ \A path \in Proofs : WordBytes * (Len(path) + 32) < TooLarge

\* The ABI: parameter j is the word at j, and a list begins where its word says.
WordAt(data, j) == Bytes(data, 5 + WordBytes * (j - 1), WordBytes)
ListAt(data, j) ==
    LET start  == NumberOf(WordAt(data, j))
        length == NumberOf(Bytes(data, 5 + start, WordBytes))
    IN  [k \in 1..length |-> Bytes(data, 5 + start + WordBytes * k, WordBytes)]

Place(names, p) == CHOOSE j \in DOMAIN names : names[j] = p
Plain(names) == {names[i] : i \in DOMAIN names} \ Sigs
Given(names, data) ==
    [p \in Plain(names) |-> IF IsList(p) THEN ListAt(data, Place(names, p))
                                         ELSE WordAt(data, Place(names, p))]

\* Of the coordinates of a signature the contract puts the imaginary part first.
Points(names, data) ==
    LET word(p) == WordAt(data, Place(names, p))
    IN  IF \E i \in DOMAIN names : names[i] \in Sigs
        THEN <<<<word("sigs1"), word("sigs0")>>, <<word("sigs3"), word("sigs2")>>>>
        ELSE <<>>

ArgumentsOf(f, data) ==
    [function |-> f, given |-> Given(Parameters[f], data), points |-> Points(Parameters[f], data)]

Arguments(data) ==
    ArgumentsOf(CHOOSE f \in Functions : Selectors[f] = Bytes(data, 1, 4), data)

NodeReads(text) ==
    LET bytes == fromHexString(text)
        outer == Items(Tail(bytes))
        items == Items(outer[1].body)
        body(i) == items[i].body
        number(i) == NumberOf(body(i))
    IN  IF /\ bytes[1] = TypeByte
           /\ Len(outer) = 1 /\ outer[1].list /\ outer[1].valid
           /\ Len(items) = 12
           /\ \A i \in 1..12 : items[i].valid /\ items[i].list = (i = 9)
           /\ \A i \in {1, 2, 3, 4, 5, 7, 10, 11, 12} : Canonical(body(i))
           /\ Len(body(6)) = Len(Contract) /\ body(9) = <<>>
        THEN [accepted |-> TRUE, chainId |-> number(1), nonce |-> number(2),
              maxPriorityFeePerGas |-> number(3), maxFeePerGas |-> number(4),
              gasLimit |-> number(5), to |-> body(6), value |-> number(7),
              call |-> Arguments(body(8)), recid |-> number(10),
              r |-> body(11), s |-> body(12),
              payload |-> <<TypeByte>> \o RLPList([i \in 1..9 |->
                  IF i = 9 THEN RLPList(<<>>) ELSE RLPBytes(body(i))])]
        ELSE Rejected

(***************************************************************************)
(* The steps of a call.                                                    *)
(***************************************************************************)
Init ==
    /\ pc = "idle"
    /\ call = <<>> /\ hashed = <<>> /\ tx = <<>> /\ signed = <<>> /\ raw = <<>> /\ received = <<>>

AsWord(n) == [i \in 1..WordBytes |-> Shifted(n)[2 * (WordBytes - i)] % 256]
Point(sig) == <<<<sig.xb, sig.xa>>, <<sig.yb, sig.ya>>>>
OfKey(key) == [pkX |-> key.x, pkY |-> key.y]
Meant(f, given, points) == [function |-> f, given |-> given, points |-> points]

Build(meant, own, gasLimit, data) ==
    /\ pc = "idle"
    /\ pc' = "built"
    /\ call' = meant
    /\ hashed' = own
    /\ tx' = Transaction(gasLimit, data)
    /\ UNCHANGED <<signed, raw, received>>

\* eth_call: the data goes to the contract as it is.
Read(meant, own, data) ==
    /\ pc = "idle"
    /\ pc' = "received"
    /\ call' = meant
    /\ hashed' = own
    /\ raw' = data
    /\ received' = [accepted |-> TRUE, call |-> Arguments(fromHexString(data))]
    /\ UNCHANGED <<tx, signed>>

BuildAddValidator == \E key \in Keys :
    Build(Meant("addValidator", [pkX |-> key.x, pkY |-> key.y, amount |-> AsWord(Amount)], <<>>), <<>>,
          300000, addValidator(key))

MaxGas == 30000000
AdditionalGas == {0, 4000}
BuildClear == \E gas \in AdditionalGas :
    Build(Meant("clearValidators", <<>>, <<>>), <<>>, MaxGas + gas, clear)

BuildCheckSigAGG == \E sig \in Signatures, h \in Hashes :
    Build(Meant("checkSigAGG", [message |-> h], Point(sig)), <<>>, MaxGas, checkSigAGG(sig, h))

BuildCheckAggPubkey == \E key \in Keys :
    Build(Meant("checkAggPubkey", OfKey(key), <<>>), <<>>, 800000, checkAggPubkey(key))

BuildCheckIndices ==
    \E f \in {"checkSigAGGIndices", "checkSigAGGNegateIndices"},
       sig \in Signatures, h \in Hashes, indices \in IndexLists :
        Build(Meant(f, [message |-> h, indices |-> [i \in DOMAIN indices |-> AsWord(indices[i])]],
                    Point(sig)), <<>>, MaxGas, checkSigAGGIndices(f, sig, h, indices))

BuildProofOfPossession == \E key \in Keys, sig \in Signatures :
    Build(Meant("validateProofOfPossession", OfKey(key), Point(sig)), hash(PossessionText(key)),
          1500000, validateProofOfPossession(key, sig))

BuildUpdateRoot == \E root \in Hashes :
    Build(Meant("updateRewardsMerkleRoot", [_merkleRoot |-> root], <<>>), <<>>, 300000,
          updateRewardsMerkleRoot(root))

BuildValidateProof == \E quantity \in Quantities, path \in Proofs :
    Build(Meant("validateProof", [_quantity |-> AsWord(quantity), _merkleProof |-> path], <<>>),
          <<>>, 300000, validateProof(quantity, path))

ReadField == \E key \in Keys :
    Read(Meant("calcField", OfKey(key), <<>>), hash(PossessionText(key)), calcField(key))

\* The address as text, with a prefix or without.
ReadHash == \E address \in Addresses, balance \in Quantities, prefix \in {<<>>, Prefix} :
    LET text == prefix \o toHexString(address)
    IN  Read(Meant("hash", [target |-> [i \in 1..12 |-> 0] \o address,
                            balance |-> AsWord(balance)], <<>>),
             hash(abiEncode(text, balance)), contractHash(text, balance))

populateTransaction ==
    /\ pc = "built"
    /\ pc' = "populated"
    /\ \E found \in Populations :
        tx' = [tx EXCEPT !.chainId = found.chainId, !.nonce = found.nonce,
                         !.maxPriorityFeePerGas = found.maxPriorityFeePerGas,
                         !.maxFeePerGas = found.maxFeePerGas]
    /\ UNCHANGED <<call, hashed, signed, raw, received>>

\* signature_hex has the 65 bytes of r, s and the recovery number.
signTransaction ==
    /\ pc = "populated"
    /\ pc' = "signed"
    /\ \E sig \in Secp :
        /\ signed' = [payload |-> hash(serialized(tx)), by |-> sig]
        /\ tx' = [tx EXCEPT !.sig = fromHex(toHexString(sig.r \o sig.s \o <<sig.recid>>))]
    /\ UNCHANGED <<call, hashed, raw, received>>

sendUncheckedTransaction ==
    /\ pc = "signed"
    /\ pc' = "sent"
    /\ raw' = serialized(tx)
    /\ UNCHANGED <<call, hashed, tx, signed, received>>

Execute ==
    /\ pc = "sent"
    /\ pc' = "received"
    /\ received' = NodeReads(raw)
    /\ UNCHANGED <<call, hashed, tx, signed, raw>>

Next ==
    \/ BuildAddValidator \/ BuildClear \/ BuildCheckSigAGG \/ BuildCheckAggPubkey
    \/ BuildCheckIndices \/ BuildProofOfPossession \/ BuildUpdateRoot \/ BuildValidateProof
    \/ ReadField \/ ReadHash
    \/ populateTransaction \/ signTransaction \/ sendUncheckedTransaction \/ Execute

Spec == Init /\ [][Next]_vars

(***************************************************************************)
(* Properties.                                                             *)
(***************************************************************************)
Overhead == Len(Prefix) + 8
IsText(text) == Len(text) > 2 /\ HasPrefix(text) /\ \A i \in 3..Len(text) : text[i] \in 0..15

\* Every text that is handed on is a prefix and digits in pairs, and calldata is
\* a selector and whole words: no padTo32Bytes of the program meets its prefix case.
TypeOK ==
    /\ pc \in {"idle", "built", "populated", "signed", "sent", "received"}
    /\ pc \in {"built", "populated", "signed", "sent"} =>
        IsText(tx.data) /\ (Len(tx.data) - Overhead) % (2 * WordBytes) = 0
    /\ raw # <<>> => IsText(raw) /\ Len(raw) % 2 = 0

\* What the contract reads is what the caller meant: selector, offsets and
\* order of the words agree with the contract's signature, and address, gas and
\* fees of the transaction come out of its serialisation as they went in.
ArgumentsArrive ==
    pc = "received" =>
        /\ received.accepted
        /\ received.call = call
        /\ tx # <<>> =>
            /\ received.to = Contract
            /\ \A field \in {"chainId", "nonce", "maxPriorityFeePerGas", "maxFeePerGas",
                             "gasLimit", "value"} : received[field] = tx[field]

\* A number of the signature as a word.
Filled(bytes) == [i \in 1..(WordBytes - Len(bytes)) |-> 0] \o bytes

\* The node finds the sender: the payload it puts together from the items it
\* read is the one whose hash was signed, and the signature is read as it was
\* made, with or without leading zeros.
SignedIsSent ==
    pc = "received" /\ signed # <<>> =>
        /\ received.accepted
        /\ received.payload = signed.payload
        /\ received.recid = signed.by.recid
        /\ Filled(received.r) = signed.by.r /\ Filled(received.s) = signed.by.s

\* What the client hashes itself is what the contract hashes: the two words of
\* a leaf, and of a public key whose possession is proved.
HashesAgree ==
    pc = "received" /\ hashed # <<>> =>
        hashed = IF call.function = "hash"
                 THEN received.call.given.target \o received.call.given.balance
                 ELSE received.call.given.pkX \o received.call.given.pkY
=============================================================================
