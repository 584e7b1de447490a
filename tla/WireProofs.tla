----------------------------- MODULE WireProofs -----------------------------
(***************************************************************************)
(* Lemmas about Wire for any radix of at least 2: the limits of the        *)
(* integers and the bytes of a header, which are decoded to what was       *)
(* encoded.                                                                *)
(***************************************************************************)
EXTENDS Wire, TLAPS

\* The limits of u16 and u32.
LEMMA Widths ==
  /\ Radix \in Nat /\ Radix >= 2
  /\ U16 \in Nat /\ U16 >= 4
  /\ U32 \in Nat /\ U32 >= 16
  /\ ABSOLUTE_MAX_PAYLOAD_SIZE \in Nat
<1>1. Radix \in Nat /\ Radix >= 2
  BY WireAssumption
<1>2. U16 \in Nat /\ U16 >= 4
  <2>1. \A r \in Nat : r >= 2 => r * r \in Nat /\ r * r >= 4
    OBVIOUS
  <2> QED
    BY <1>1, <2>1 DEF U16
<1>3. U32 \in Nat /\ U32 >= 16
  <2>1. \A r \in Nat : r >= 4 => r * r \in Nat /\ r * r >= 16
    OBVIOUS
  <2> QED
    BY <1>2, <2>1 DEF U32
<1>4. ABSOLUTE_MAX_PAYLOAD_SIZE \in Nat
  BY <1>3 DEF ABSOLUTE_MAX_PAYLOAD_SIZE
<1> QED
  BY <1>1, <1>2, <1>3, <1>4

\* Quotient and remainder by a width.
LEMMA Division ==
  ASSUME NEW w \in Nat, w > 0, NEW n \in Nat
  PROVE  /\ n \div w \in Nat /\ n % w \in Nat
         /\ (n \div w) * w + (n % w) = n
<1>1. /\ n = w * (n \div w) + (n % w)
      /\ n \div w \in Int /\ n % w \in 0..(w - 1)
  OBVIOUS
<1>2. \A q \in Int : q < 0 => w * q <= -w
  OBVIOUS
<1>3. n \div w >= 0
  BY <1>1, <1>2
<1> QED
  BY <1>1, <1>3

\* A u16 has two bytes and is read back from them.
LEMMA RoundTrip16 ==
  ASSUME NEW n \in Nat
  PROVE  /\ n \div Radix \in Nat /\ n % Radix \in Nat
         /\ From16(n \div Radix, n % Radix) = n
BY Widths, Division DEF From16

\* A u32 has two halves of two bytes and is read back from them.
LEMMA RoundTrip32 ==
  ASSUME NEW n \in Nat
  PROVE  /\ n \div U16 \in Nat /\ n % U16 \in Nat
         /\ From32((n \div U16) \div Radix, (n \div U16) % Radix,
                   (n % U16) \div Radix, (n % U16) % Radix) = n
<1>1. n \div U16 \in Nat /\ n % U16 \in Nat /\ (n \div U16) * U16 + (n % U16) = n
  BY Widths, Division
<1>2. /\ From16((n \div U16) \div Radix, (n \div U16) % Radix) = n \div U16
      /\ From16((n % U16) \div Radix, (n % U16) % Radix) = n % U16
  BY <1>1, RoundTrip16
<1> QED
  BY <1>1, <1>2, Widths DEF From32

\* Whatever is encoded is decoded again, and a header has eleven bytes.
LEMMA HeaderBytes ==
  ASSUME NEW m \in Nat, NEW f \in Nat, NEW r \in Nat, NEW l \in Nat
  PROVE  /\ decode(encode(Header(m, f, r, l))) = Header(m, f, r, l)
         /\ encode(Header(m, f, r, l)) \in Seq(Nat)
         /\ Len(encode(Header(m, f, r, l))) = HEADER_SIZE
         /\ encode(Header(m, f, r, l)) # <<>>
<1> DEFINE s == encode(Header(m, f, r, l))
           High(n) == n \div Radix
           Low(n) == n % Radix
           rh == r \div U16
           rl == r % U16
           lh == l \div U16
           ll == l % U16
<1>1. rh \in Nat /\ rl \in Nat /\ lh \in Nat /\ ll \in Nat
  BY RoundTrip32
<1>2. \A n \in Nat : High(n) \in Nat /\ Low(n) \in Nat
  BY RoundTrip16
<1>3. s = <<High(m), Low(m)>> \o <<f>>
            \o (<<High(rh), Low(rh)>> \o <<High(rl), Low(rl)>>)
            \o (<<High(lh), Low(lh)>> \o <<High(ll), Low(ll)>>)
  BY Zenon DEF encode, Header, Bytes16, Bytes32
<1>4. /\ From16(High(m), Low(m)) = m
      /\ From32(High(rh), Low(rh), High(rl), Low(rl)) = r
      /\ From32(High(lh), Low(lh), High(ll), Low(ll)) = l
  BY RoundTrip16, RoundTrip32
<1> HIDE DEF s, High, Low, rh, rl, lh, ll
<1>5. /\ s[1] = High(m) /\ s[2] = Low(m) /\ s[3] = f
      /\ s[4] = High(rh) /\ s[5] = Low(rh) /\ s[6] = High(rl) /\ s[7] = Low(rl)
      /\ s[8] = High(lh) /\ s[9] = Low(lh) /\ s[10] = High(ll)
      /\ s[11] = Low(ll)
      /\ s \in Seq(Nat) /\ Len(s) = HEADER_SIZE
  <2>1. /\ High(m) \in Nat /\ Low(m) \in Nat
        /\ High(rh) \in Nat /\ Low(rh) \in Nat /\ High(rl) \in Nat /\ Low(rl) \in Nat
        /\ High(lh) \in Nat /\ Low(lh) \in Nat /\ High(ll) \in Nat /\ Low(ll) \in Nat
    BY <1>1, <1>2
  <2> QED
    BY <1>3, <2>1 DEF HEADER_SIZE
<1>6. decode(s) = Header(m, f, r, l)
  BY <1>4, <1>5 DEF decode
<1>7. s # <<>>
  BY <1>5 DEF HEADER_SIZE
<1> QED
  BY <1>5, <1>6, <1>7 DEF s

\* What the parent decodes is what was encoded, and a header is never empty.
LEMMA RoundTrip ==
  ASSUME NEW m \in Nat, NEW f \in Nat, NEW r \in Nat, NEW l \in Nat
  PROVE  /\ decode(encode(Header(m, f, r, l))) = Header(m, f, r, l)
         /\ encode(Header(m, f, r, l)) # <<>>
BY HeaderBytes, Zenon
=============================================================================
