----------------------------- MODULE TargetGuard -----------------------------
(***************************************************************************)
(* The guard in front of every outbound connection                         *)
(* (backend/src/shared/ssrf.js), as pure operators.  An address is text:   *)
(* [version |-> 4, quad], or [version |-> 6, head, tail], the groups on    *)
(* both sides of "::"; tail is Null where the text has no "::", and a *)
(* group is << n >> or a dotted quad.  A host is an address literal or a   *)
(* name with the answer its lookup gives at that moment.                   *)
(***************************************************************************)
EXTENDS Integers, Sequences

Null == << >>

PUBLIC == "public"
Byte == 0 .. 255
Group == 0 .. 65535

classifyIpv4(quad) ==
    LET first == quad[1]  second == quad[2]  third == quad[3]
    IN  CASE first = 0                                    -> "reserved"
          [] first = 10                                   -> "private"
          [] first = 127                                  -> "loopback"
          [] first = 100 /\ second \in 64 .. 127          -> "cgnat"
          [] first = 169 /\ second = 254                  -> "link-local"
          [] first = 172 /\ second \in 16 .. 31           -> "private"
          [] first = 192 /\ second = 0 /\ third \in {0, 2} -> "reserved"
          [] first = 192 /\ second = 168                  -> "private"
          [] first = 198 /\ second \in {18, 19}           -> "reserved"
          [] first = 198 /\ second = 51 /\ third = 100    -> "reserved"
          [] first = 203 /\ second = 0 /\ third = 113     -> "reserved"
          [] first \in 224 .. 239                         -> "multicast"
          [] first >= 240                                 -> "reserved"
          [] OTHER                                        -> PUBLIC

\* A dotted quad at the end stands for two groups.
expandIpv4Suffix(groups) ==
    IF groups = << >> \/ Len(groups[Len(groups)]) # 4 THEN groups
    ELSE LET last == groups[Len(groups)]
         IN  SubSeq(groups, 1, Len(groups) - 1)
               \o << <<last[1] * 256 + last[2]>>, <<last[3] * 256 + last[4]>> >>

\* The sixteen bytes, or Null for a text that is not eight groups.
ipv6ToBytes(address) ==
    LET leading  == expandIpv4Suffix(address.head)
        trailing == IF address.tail = Null THEN << >> ELSE expandIpv4Suffix(address.tail[1])
        gap      == 8 - Len(leading) - Len(trailing)
        groups   == IF address.tail = Null THEN leading
                    ELSE leading \o [i \in 1 .. gap |-> <<0>>] \o trailing
    IN  IF gap < 0 \/ Len(groups) # 8 \/ \E i \in 1 .. 8 : groups[i][1] \notin Group
        THEN Null
        ELSE << [i \in 0 .. 15 |->
                LET group == groups[i \div 2 + 1][1]
                IN  IF i % 2 = 0 THEN group \div 256 ELSE group % 256] >>

isZeroRange(bytes, start, end) == \A i \in start .. (end - 1) : bytes[i] = 0

classifyIpv6(address) ==
    LET parsed   == ipv6ToBytes(address)
        bytes    == parsed[1]
        embedded == classifyIpv4(<<bytes[12], bytes[13], bytes[14], bytes[15]>>)
        low(b)   == isZeroRange(bytes, 0, 10) /\ bytes[10] = b /\ bytes[11] = b
        nat64    == /\ bytes[0] = 0 /\ bytes[1] = 100 /\ bytes[2] = 255 /\ bytes[3] = 155
                    /\ isZeroRange(bytes, 4, 12) \/ (bytes[4] = 0 /\ bytes[5] = 1)
    IN  IF parsed = Null THEN "unknown"
        ELSE IF low(0) /\ isZeroRange(bytes, 12, 16) THEN "reserved"
        ELSE IF low(0) /\ isZeroRange(bytes, 12, 15) /\ bytes[15] = 1 THEN "loopback"
        ELSE IF low(255) \/ low(0) \/ nat64 THEN embedded
        ELSE IF bytes[0] = 254 /\ bytes[1] \div 64 = 2 THEN "link-local"
        ELSE IF bytes[0] \div 2 = 126 THEN "unique-local"
        ELSE IF bytes[0] = 255 THEN "multicast" ELSE PUBLIC

classifyAddress(address) ==
    IF address.version = 4 THEN classifyIpv4(address.quad) ELSE classifyIpv6(address)

Blocked(reason) == [ok |-> FALSE, reason |-> reason]

resolveSafeTarget_FirstOnly(url, addresses, guard) ==
    IF addresses = << >> THEN Blocked("dns_failure")
    ELSE IF ~guard.allowPrivate /\ classifyAddress(addresses[1]) # PUBLIC
         THEN Blocked("private_address")
         ELSE [ok |-> TRUE, address |-> addresses[1]]

\* addresses is the literal, or what the lookup answers (<< >> when it fails).
\* All of them must be public; the first one is pinned.
resolveSafeTarget(url, addresses, guard) ==
    IF ~url.parses THEN Blocked("invalid_url")
    ELSE IF url.scheme \notin {"http:", "https:"} THEN Blocked("unsupported_scheme")
    ELSE IF url.port \in guard.blockedPorts THEN Blocked("blocked_port")
    ELSE IF addresses = << >> THEN Blocked("dns_failure")
    ELSE IF /\ ~guard.allowPrivate /\ ~url.allowlisted
            /\ \E i \in DOMAIN addresses : classifyAddress(addresses[i]) # PUBLIC
         THEN Blocked("private_address")
         ELSE [ok |-> TRUE, address |-> addresses[1]]
-----------------------------------------------------------------------------
(* Reference: the special-purpose IPv4 blocks as prefixes of the first 24   *)
(* bits, and for IPv6 the special blocks and the blocks that embed an IPv4  *)
(* address in their last four bytes.                                        *)

SpecialBlocks ==
    { <<0, 0, 0, 8>>, <<10, 0, 0, 8>>, <<100, 64, 0, 10>>, <<127, 0, 0, 8>>,
      <<169, 254, 0, 16>>, <<172, 16, 0, 12>>, <<192, 0, 0, 24>>, <<192, 0, 2, 24>>,
      <<192, 168, 0, 16>>, <<198, 18, 0, 15>>, <<198, 51, 100, 24>>,
      <<203, 0, 113, 24>>, <<224, 0, 0, 4>>, <<240, 0, 0, 4>> }
InBlock(quad, block) ==
    LET upper(q) == (q[1] * 65536 + q[2] * 256 + q[3]) \div (2 ^ (24 - block[4]))
    IN  upper(quad) = upper(block)
ReachableQuad(quad) == \A block \in SpecialBlocks : ~InBlock(quad, block)

\* groups: the eight 16-bit groups.
ReachableGroups(groups) ==
    LET quad == <<groups[7] \div 256, groups[7] % 256, groups[8] \div 256, groups[8] % 256>>
        zeros(n) == \A i \in 1 .. n : groups[i] = 0
        translated == groups[1] = 100 /\ groups[2] = 65435   \* 64:ff9b
    IN  /\ groups[1] \notin 64512 .. 65023      \* fc00::/7
        /\ groups[1] \notin 65152 .. 65215      \* fe80::/10
        /\ groups[1] < 65280                    \* ff00::/8
        /\ zeros(6) => ReachableQuad(quad)                          \* ::/96
        /\ zeros(5) /\ groups[6] = 65535 => ReachableQuad(quad)     \* ::ffff:0:0/96
        /\ translated /\ (\A i \in 3 .. 6 : groups[i] = 0) => ReachableQuad(quad)
        /\ translated /\ groups[3] = 1 => ReachableQuad(quad)

\* What an address text means (RFC 4291): its parts are groups, the last of a part
\* possibly a dotted quad, which stands for two; "::" stands for the zeros between.
IsQuad(item) == item \in Byte \X Byte \X Byte \X Byte
IsPart(part) ==
    /\ part \in Seq(Seq(Nat))
    /\ \A i \in DOMAIN part : \/ \E n \in Group : part[i] = << n >>
                              \/ i = Len(part) /\ IsQuad(part[i])
Width(part) ==
    Len(part) + (IF part # << >> /\ Len(part[Len(part)]) = 4 THEN 1 ELSE 0)
Spells(part, groups, from) ==
    \A i \in DOMAIN part :
        LET item == part[i]
        IN  IF Len(item) = 4 THEN /\ groups[from + i] = item[1] * 256 + item[2]
                                  /\ groups[from + i + 1] = item[3] * 256 + item[4]
                             ELSE groups[from + i] = item[1]
Means(address, groups) ==
    LET head == address.head  tail == address.tail[1]
    IN  /\ IsPart(head) /\ Spells(head, groups, 0)
        /\ IF address.tail = Null THEN Width(head) = 8
           ELSE /\ address.tail = << tail >> /\ IsPart(tail)
                /\ Width(head) + Width(tail) <= 8
                /\ Spells(tail, groups, 8 - Width(tail))
                /\ \A i \in (Width(head) + 1) .. (8 - Width(tail)) : groups[i] = 0
IsAddress(address) ==
    \/ address.version = 4 /\ IsQuad(address.quad)
    \/ /\ address.version = 6 /\ address.means \in [1 .. 8 -> Group]
       /\ Means(address, address.means)
=============================================================================
