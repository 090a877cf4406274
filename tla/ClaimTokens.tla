---------------------------- MODULE ClaimTokens ----------------------------
(* Claim tokens of crates/claim: create_claim checks a request and signs a *)
(* payload of version 1 (one asset) or 2 (a filter of assets); the keys    *)
(* are rotated, and lost or read again at a restart; verify_claim decodes  *)
(* a token and decides on a request for a file. The payloads' bytes are    *)
(* modelled with Byte values to a byte, AES-GCM by what it promises, and a *)
(* filter by the hashes of its assets. ClaimBuckets has the buckets.       *)
EXTENDS Naturals, SequencesExt, FiniteSetsExt, TLC

CONSTANTS
  Byte,        \* values of a byte (256)
  Segment,     \* HLS_SEGMENT_DURATION
  DescriptorLen,  \* Descriptor::LEN
  ClaimAsks,   \* requests to create a claim: [v, assets, nbf, exp, window, kbps, conc, widths]; nbf 0: none
  FileAsks,    \* requests for files: [asset, segment, width]; Unset: none
  Unset,
  XxHash(_),   \* XxHash3_64::oneshot
  KeyConfigs,  \* key ids the configuration may have, {}: none
  MaxTokens, MaxTokenTime, MaxKeys   \* bounds of a run

VARIABLE claim
\* keys: the key of each key id; tokens: what was signed; verdict: the last verify_claim

u16 == Byte * Byte
(* to_le_bytes and from_le_bytes; b[at] is the last byte already read      *)
Bytes2(n) == <<n % Byte, (n \div Byte) % Byte>>
Bytes4(n) == Bytes2(n % u16) \o Bytes2(n \div u16)
Words(ns) == [i \in 1 .. 2 * Len(ns) |-> Bytes2(ns[(i + 1) \div 2])[2 - (i % 2)]]
Num2(b, at) == b[at + 1] + Byte * b[at + 2]
Num4(b, at) == Num2(b, at) + u16 * Num2(b, at + 2)

(* gen_key, and BinaryFuse16::contains: no asset of the filter is missed,  *)
(* one with the hash of another is taken for it.                           *)
Hash(asset) == XxHash(asset) % u16
Covers(p, asset) == IF p.v = 1 THEN p.asset = asset ELSE Hash(asset) \in Range(p.filter)

(* What requests hold: the types of the code's fields, and some asset to a *)
(* claim of version 1.                                                     *)
ASSUME TokenAssumption ==
  /\ Byte \in Nat \ {0} /\ Segment \in Nat \ {0} /\ DescriptorLen \in Nat
  /\ MaxTokenTime \in 1 .. u16 * u16 - 1
  /\ ClaimAsks \subseteq [v : {1, 2}, assets : Seq(Seq(Nat)), nbf : Nat, exp : Nat, window : Nat, kbps : Nat, conc : Nat,
                          widths : Seq(Nat)]
  /\ \A r \in ClaimAsks :
       /\ r.nbf < u16 * u16 /\ r.exp < u16 * u16 /\ r.window < u16 /\ r.kbps < u16 /\ r.conc < u16
       /\ \A i \in DOMAIN r.widths : r.widths[i] < u16
       /\ \A i \in DOMAIN r.assets : XxHash(r.assets[i]) \in Nat
       /\ r.v = 1 => r.assets # <<>>
  /\ \A ask \in FileAsks : ask.segment = Unset \/ ask.segment \in Nat

-----------------------------------------------------------------------------
(* BinaryFuse16::serialize, whose length is cut to 16 bits                 *)
FilterBytes(filter) == Bytes2(Len(filter) % u16) \o [i \in 1 .. DescriptorLen |-> 0] \o Words(filter)
(* The limits at the end of both versions *)
LimitBytes(p) ==
  Bytes2(p.window) \o Bytes2(p.kbps) \o Bytes2(p.conc) \o <<Len(p.widths) % Byte>> \o Words(p.widths)
(* serialize_to_bytes of both versions *)
Serialized(p) ==
  Bytes4(p.exp) \o Bytes4(p.nbf)
  \o (IF p.v = 1 THEN <<Len(p.asset) % Byte>> \o p.asset ELSE FilterBytes(p.filter)) \o LimitBytes(p)

Unreadable == [v |-> 0]

(* What follows the times: an asset, or BinaryFuse16::deserialize          *)
AssetEnd(b) == 9 + b[9]
ReadAsset(b) == SubSeq(b, 10, AssetEnd(b))
FilterEnd(b) == 10 + DescriptorLen + 2 * Num2(b, 8)
ReadWords(b, at, n) == [i \in 1 .. n |-> Num2(b, at + 2 * (i - 1))]
ReadFilter(b) == ReadWords(b, 10 + DescriptorLen, Num2(b, 8))

(* deserialize_from_bytes of both versions                                 *)
Read(b, v) ==
  LET at == IF v = 1 THEN AssetEnd(b) ELSE FilterEnd(b)
      n == b[at + 7]
  IN  IF Len(b) < (IF v = 1 THEN 13 ELSE 10) \/ Len(b) < at + 7 \/ Len(b) < at + 7 + 2 * n THEN Unreadable
      ELSE [v |-> v, exp |-> Num4(b, 0), nbf |-> Num4(b, 4),
            asset |-> IF v = 1 THEN ReadAsset(b) ELSE <<>>, filter |-> IF v = 1 THEN <<>> ELSE ReadFilter(b),
            window |-> Num2(b, at), kbps |-> Num2(b, at + 2), conc |-> Num2(b, at + 4),
            widths |-> ReadWords(b, at + 7, n)]

-----------------------------------------------------------------------------
(* ClaimManagerInner::from_keys and new: the least key id signs            *)
Fresh(kids, made) ==
  IF kids = {} THEN [keys |-> 1 :> made + 1, current |-> 1, made |-> made + 1]
  ELSE [keys |-> [k \in kids |-> 0], current |-> Min(kids), made |-> made]

NewClaims ==
  {[config |-> kids, mgr |-> Fresh(kids, 0), now |-> 1, tokens |-> <<>>, status |-> 0,
    verdict |-> [token |-> 0, ask |-> [asset |-> <<>>, segment |-> Unset, width |-> Unset], damage |-> "none",
                 known |-> TRUE, at |-> 0, result |-> ""]] : kids \in KeyConfigs}
TokenInit == claim \in NewClaims

(* add_key and set_current_kid *)
AddKey(kid) ==
  /\ kid \notin DOMAIN claim.mgr.keys /\ claim.mgr.made < MaxKeys
  /\ claim' = [claim EXCEPT !.mgr.keys = (kid :> claim.mgr.made + 1) @@ @, !.mgr.made = @ + 1]
SetCurrentKid(kid) ==
  /\ kid \in DOMAIN claim.mgr.keys \ {claim.mgr.current}
  /\ claim' = [claim EXCEPT !.mgr.current = kid]
Restart ==
  /\ claim.mgr.made < MaxKeys
  /\ claim' = [claim EXCEPT !.mgr = Fresh(claim.config, claim.mgr.made)]
TokenTick == claim.now < MaxTokenTime /\ claim' = [claim EXCEPT !.now = @ + 1]

(* AssetsFilter::is_empty *)
AsksNothing(r) == IF r.v = 1 THEN r.assets[1] = <<>> ELSE \A a \in Range(r.assets) : a = <<>>
(* sign_claim; the header's fields and the payload go under the current key *)
Signed(p, r) == [kid |-> claim.mgr.current, key |-> claim.mgr.keys[claim.mgr.current],
                 v |-> p.v, bytes |-> Serialized(p), payload |-> p, ask |-> r]

(* create_claim: a 400 for what is not asked rightly, a 500 for what       *)
(* cannot be written                                                       *)
CreateClaim(r) ==
  LET nbf == IF r.nbf = 0 THEN claim.now ELSE r.nbf
      wrong == AsksNothing(r) \/ r.exp <= nbf
      p == [v |-> r.v, exp |-> r.exp, nbf |-> nbf, asset |-> IF r.v = 1 THEN r.assets[1] ELSE <<>>,
            filter |-> IF r.v = 1 THEN <<>> ELSE [i \in DOMAIN r.assets |-> Hash(r.assets[i])],
            window |-> r.window, kbps |-> r.kbps, conc |-> r.conc, widths |-> r.widths]
      large == Len(r.widths) > Byte - 1 \/ Len(p.asset) > Byte - 1
  IN  /\ Len(claim.tokens) < MaxTokens
      /\ claim' = IF wrong \/ large THEN [claim EXCEPT !.status = IF wrong THEN 400 ELSE 500]
                  ELSE [claim EXCEPT !.status = 200, !.tokens = Append(@, Signed(p, r))]

\* A mutant: a token still holds in the second in which it expires.
VerifyLastSecond(p, ask) ==
  IF p = Unreadable THEN "InvalidPayload"
  ELSE IF claim.now < p.nbf THEN "TokenNotYetValid"
  ELSE IF claim.now > p.exp THEN "TokenExpired"
  ELSE IF ~Covers(p, ask.asset) THEN "AssetMismatch"
  ELSE IF ask.segment # Unset /\ p.window # 0 /\ ask.segment > p.window \div Segment THEN "TimeWindowDeny"
  ELSE IF ask.width # Unset /\ p.widths # <<>> /\ ask.width \notin Range(p.widths) THEN "AssetMismatch"
  ELSE "ok"

(* Payload::verify; a payload that cannot be read is not even looked at    *)
VerifyPayload(p, ask) ==
  IF p = Unreadable THEN "InvalidPayload"
  ELSE IF claim.now < p.nbf THEN "TokenNotYetValid"
  ELSE IF claim.now >= p.exp THEN "TokenExpired"
  ELSE IF ~Covers(p, ask.asset) THEN "AssetMismatch"
  ELSE IF ask.segment # Unset /\ p.window # 0 /\ ask.segment > p.window \div Segment THEN "TimeWindowDeny"
  ELSE IF ask.width # Unset /\ p.widths # <<>> /\ ask.width \notin Range(p.widths) THEN "AssetMismatch"
  ELSE "ok"

(* decode and ClaimHeader::from_bytes: what is wrong before a key is looked*)
(* for; "" for nothing                                                     *)
HeaderFault(damage) == IF damage = "cut" THEN "InvalidToken" ELSE IF damage = "header" THEN "InvalidHeader" ELSE ""

(* verify_claim up to the bucket. A token may have been damaged on the way:*)
(* cut, its header, or a byte of what the key protects.                    *)
VerifyClaim(t, ask, damage) ==
  LET tok == claim.tokens[t]
      keys == claim.mgr.keys
      known == tok.kid \in DOMAIN keys /\ keys[tok.kid] = tok.key
      result == IF HeaderFault(damage) # "" THEN HeaderFault(damage)
                ELSE IF tok.kid \notin DOMAIN keys THEN "KeyNotFound"
                ELSE IF damage = "body" \/ ~known THEN "AeadFail"
                ELSE VerifyPayload(Read(tok.bytes, tok.v), ask)
  IN  claim' = [claim EXCEPT !.verdict = [token |-> t, ask |-> ask, damage |-> damage, known |-> known, at |-> claim.now, result |-> result]]

(* A verification changes no key and no token: what comes after it could   *)
(* come without it, and a behaviour ends with one.                         *)
TokenNext ==
  /\ claim.verdict.token = 0
  /\ \/ \E r \in ClaimAsks : CreateClaim(r)
     \/ \E k \in 1 .. 2 : AddKey(k) \/ SetCurrentKid(k)
     \/ Restart \/ TokenTick
     \/ \E t \in DOMAIN claim.tokens, ask \in FileAsks, d \in {"none", "cut", "header", "body"} : VerifyClaim(t, ask, d)

-----------------------------------------------------------------------------
Fits(t) == Len(t.ask.assets) < u16

(* What was signed is read back, version by version, and no part of it     *)
(* that lacks bytes at its end is taken for a payload.  (A filter of 2^16  *)
(* or more fingerprints is not: its length is cut when it is written.)     *)
PayloadReadBack ==
  \A i \in DOMAIN claim.tokens : LET t == claim.tokens[i] IN Fits(t) =>
    /\ Read(t.bytes, t.v) = t.payload
    /\ \A n \in 1 .. Len(t.bytes) : Read(SubSeq(t.bytes, 1, n - 1), t.v) = Unreadable

(* A file is granted exactly when the creator of the token asked for it:   *)
(* the time is in the bounds, the asset is one of the assets (or hashes    *)
(* like one of a list), the segment starts within the window or at its     *)
(* end, the width is allowed, and the key the token was signed with is     *)
(* still there, whichever key signs now. What is refused for the file      *)
(* alone (403) would have been granted for another.                        *)
VerdictMatches ==
  LET v == claim.verdict
      t == claim.tokens[v.token]
      r == t.ask
      file == /\ IF r.v = 1 THEN v.ask.asset = r.assets[1]
                 ELSE \E a \in Range(r.assets) : Hash(a) = Hash(v.ask.asset)
              /\ v.ask.segment # Unset /\ r.window # 0 => v.ask.segment * Segment <= r.window
              /\ v.ask.width # Unset /\ r.widths # <<>> => v.ask.width \in Range(r.widths)
      valid == v.known /\ v.damage = "none"
  IN  v.token # 0 /\ Fits(t) =>
        /\ v.result = "ok" => valid /\ file
        /\ v.result \in {"AssetMismatch", "TimeWindowDeny"} => valid /\ ~file
        /\ valid => v.result \in {"ok", "AssetMismatch", "TimeWindowDeny", "TokenNotYetValid", "TokenExpired"}

(* ... and the bounds on the time are those of the request, checked when   *)
(* the file is asked for.                                                  *)
TimeBounds ==
  LET v == claim.verdict
      r == claim.tokens[v.token].ask
  IN  v.token # 0 /\ Fits(claim.tokens[v.token]) =>
        /\ v.result = "ok" => r.nbf <= v.at /\ v.at < r.exp
        /\ v.result = "TokenExpired" => v.at >= r.exp

(* A token grants what its creator asked for and nothing else: the payload *)
(* survives its bytes, the verdict is that of the request, and the times   *)
(* are checked at the time.                                                *)
TokensGrant == PayloadReadBack /\ VerdictMatches /\ TimeBounds
=============================================================================
