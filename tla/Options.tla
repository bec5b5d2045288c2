------------------------------- MODULE Options -------------------------------
(***************************************************************************)
(* DHCP options (dhcp_options.c), the classless routes among them          *)
(* (IPv4ClasslessRoute.c): the option area a server fills, with the        *)
(* vendor-specific area it is filled through, the conversion of            *)
(* configuration strings to option data, and the receiver's parser and     *)
(* the two conversions back, that of ipconfig getoption and the printer.   *)
(*                                                                         *)
(* An option is [tag, val], val its bytes.  A string of the configuration  *)
(* is what the conversions read from it: its number, its address (none if  *)
(* inet_aton fails), its prefix length (-1 without a slash), its bytes and *)
(* its labels.                                                             *)
(***************************************************************************)
EXTENDS DNSNames, Integers

CONSTANTS
    OptionTag,      \* the tags a server adds with plain bytes
    OptionVal,      \* the bytes it adds
    StrList,        \* lists of strings in its configuration
    TypeOf,         \* dhcptag_info_table: [tag -> type]
    AreaSize,       \* sizes of the option area
    VendorSize,     \* size of the vendor-specific area
    OptionSizeMax,  \* DHCP_OPTION_SIZE_MAX
    MaxOptions,     \* bound: options added
    MaxText         \* bound: the first options come from strings, no later ones

PadTag == 0
VendorTag == 43
OverloadTag == 52
EndTag == 255
Overload == [file |-> {1, 3}, sname |-> {2, 3}]

ASSUME OptionAssumption ==
    /\ OptionTag \subseteq 1 .. 254
    /\ \A s \in AreaSize : s \in Nat \ {0}

VARIABLE area  \* [oa, voa, added, vadded, done, crashed]

-----------------------------------------------------------------------------
(* Classless routes, [dest, prefix, gate].                                 *)

Zero == <<0, 0, 0, 0>>
Significant(prefix) == (prefix + 7) \div 8

\* The address under a mask, as a truth value: is any bit of it set?
AnyBit(ip, prefix) ==
    \E i \in 1 .. 4 : LET bits == prefix - 8 * (i - 1) IN
        bits > 0 /\ ip[i] \div 2 ^ (IF bits >= 8 THEN 0 ELSE 8 - bits) # 0

\* "ip[/prefix]": the class gives a missing length, and a network that the
\* mask leaves nothing of is the default route.
parse_destination_descriptor(str) ==
    LET class == IF str.ip[1] < 128 THEN 8 ELSE IF str.ip[1] < 192 THEN 16 ELSE 24
        prefix == IF str.slash = -1 THEN class ELSE str.slash
    IN IF str.ip = <<>> \/ prefix > 32 THEN [ok |-> FALSE]
       ELSE IF AnyBit(str.ip, prefix) THEN [ok |-> TRUE, dest |-> str.ip, prefix |-> prefix]
       ELSE [ok |-> TRUE, dest |-> Zero, prefix |-> 0]

\* Pairs of a destination and a gateway.  The first default route moves to
\* the front, one without a gateway is put there if there is none.
DefaultFirst(all) ==
    LET i == SelectInSeq(all, LAMBDA r : r.dest = Zero)
    IN IF i = 0 THEN <<[dest |-> Zero, prefix |-> 0, gate |-> Zero]>> \o all
       ELSE <<all[i]>> \o RemoveAt(all, i)
IPv4ClasslessRouteListCreateWithArray(list) ==
    LET pairs == 1 .. Len(list) \div 2
        d(i) == parse_destination_descriptor(list[2 * i - 1])
    IN IF pairs = {} \/ Len(list) % 2 = 1 \/ \E i \in pairs : ~d(i).ok \/ list[2 * i].ip = <<>>
         THEN <<>>
       ELSE DefaultFirst([i \in pairs |->
              [dest |-> d(i).dest, prefix |-> d(i).prefix, gate |-> list[2 * i].ip]])

IPv4ClasslessRouteListBufAddRoute(r) ==
    <<r.prefix>> \o SubSeq(r.dest, 1, Significant(r.prefix)) \o r.gate

\* Nothing is left of a list that does not fit the caller's buffer.
IPv4ClasslessRouteListBufferCreate(routes, room) ==
    LET bytes == FlattenSeq([i \in DOMAIN routes |-> IPv4ClasslessRouteListBufAddRoute(routes[i])])
    IN IF Len(bytes) > room \/ \E i \in DOMAIN routes : routes[i].prefix > 32 THEN <<>> ELSE bytes

\* All the routes, or none if one of them is wrong or cut short.
RECURSIVE IPv4ClasslessRouteListParse(_)
IPv4ClasslessRouteListParse(buf) ==
    IF buf = <<>> THEN <<>>
    ELSE LET len == Significant(buf[1])
             needed == 1 + len + 4
             rest == SubSeq(buf, needed + 1, Len(buf))
         IN IF buf[1] > 32 \/ Len(buf) < needed THEN <<>>
            ELSE IF rest # <<>> /\ IPv4ClasslessRouteListParse(rest) = <<>> THEN <<>>
            ELSE <<[prefix |-> buf[1], dest |-> SubSeq(SubSeq(buf, 2, 1 + len) \o Zero, 1, 4),
                    gate |-> SubSeq(buf, 2 + len, needed)]>> \o IPv4ClasslessRouteListParse(rest)

IPv4ClasslessRouteListCreate(buf) == IPv4ClasslessRouteListParse(buf)

IPv4ClasslessRouteListGetDefault(routes) ==
    LET d == SelectSeq(routes, LAMBDA r : r.dest = Zero)
    IN IF d = <<>> THEN [none |-> TRUE] ELSE d[1]

-----------------------------------------------------------------------------
(* Strings to option data.                                                 *)

TypeSize == [bool |-> 1, uint8 |-> 1, uint16 |-> 2, uint32 |-> 4, ip |-> 4, string |-> 0,
             dns_namelist |-> 0, classless_route |-> 0, ip_mult |-> 4, ip_pairs |-> 8]
MultipleOf == [ip_mult |-> "ip", ip_pairs |-> "ip"]

None == [ok |-> FALSE]
Data(bytes) == [ok |-> TRUE, bytes |-> bytes]
NonEmpty(bytes) == IF bytes = <<>> THEN None ELSE Data(bytes)
Encoded(r) == IF r.ok THEN NonEmpty(r.b.bytes) ELSE None

dhcptype_from_str(str, type, room) ==
    IF room < TypeSize[type] THEN None
    ELSE CASE type = "bool" -> Data(<<IF str.num = 0 THEN 0 ELSE 1>>)
           [] type = "uint8" -> IF str.num > 255 THEN None ELSE Data(<<str.num>>)
           [] type = "uint16" -> IF str.num > 65535 THEN None
                                 ELSE Data(<<str.num \div 256, str.num % 256>>)
           [] type = "uint32" -> Data([i \in 1 .. 4 |-> (str.num \div 256 ^ (4 - i)) % 256])
           [] type = "ip" -> IF str.ip = <<>> THEN None ELSE Data(str.ip)
           [] type = "string" -> IF room < Len(str.text) THEN None ELSE Data(str.text)
           [] type = "dns_namelist" -> Encoded(DNSNamesBufAddName(DNSNamesBufInit(room, TRUE), str.name, {}))
           [] OTHER -> None

dhcptype_from_strlist(list, type, room) ==
    CASE type = "dns_namelist" ->
           NonEmpty(FoldLeft(LAMBDA r, str : IF r.ok THEN DNSNamesBufAddName(r.b, str.name, {}) ELSE r,
                             [ok |-> TRUE, b |-> DNSNamesBufInit(room, TRUE)], list).b.bytes)
      [] type = "classless_route" ->
           NonEmpty(IPv4ClasslessRouteListBufferCreate(IPv4ClasslessRouteListCreateWithArray(list), room))
      [] OTHER -> None

\* A list of addresses is cut to what an option holds, even inside a pair.
dhcptag_from_strlist(list, tag, room) ==
    LET type == TypeOf[tag]
        n == IF type = "ip_pairs" THEN 2 ELSE 1
        kept == SubSeq(list, 1, IF Len(list) * 4 > room THEN room \div 4 ELSE Len(list))
        one == [i \in DOMAIN kept |-> dhcptype_from_str(kept[i], "ip", 4)]
    IN IF type \in {"dns_namelist", "classless_route"} THEN dhcptype_from_strlist(list, type, room)
       ELSE IF type \notin DOMAIN MultipleOf THEN dhcptype_from_str(list[1], type, room)
       ELSE IF Len(list) % n # 0 \/ \E i \in DOMAIN kept : ~one[i].ok THEN None
       ELSE Data(FlattenSeq([i \in DOMAIN kept |-> one[i].bytes]))

-----------------------------------------------------------------------------
(* Option data to what is shown.                                           *)

AsShown(value) == [ok |-> TRUE, value |-> value]
BigEndian(bytes, width) == FoldLeft(LAMBDA acc, b : 256 * acc + b, 0, SubSeq(bytes, 1, width))

\* A bool is read as an int, low byte first, with what memory holds behind the
\* byte that is the option.
Behind == [1 .. 3 -> {0, 1}]
IntAt(bytes, behind) == bytes[1] + 256 * behind[1] + 65536 * behind[2] + 16777216 * behind[3]

dhcptype_to_str(bytes, type, behind) ==
    CASE type = "bool" -> AsShown(IntAt(bytes, behind))
      [] type \in {"uint8", "uint16", "uint32"} -> AsShown(BigEndian(bytes, TypeSize[type]))
      [] type = "ip" -> AsShown(SubSeq(bytes, 1, 4))
      [] type = "string" -> AsShown(bytes)
      [] OTHER -> None

\* Of several values of a type only the first is converted.
dhcptag_to_str(bytes, tag, behind) ==
    LET type == TypeOf[tag]
    IN dhcptype_to_str(bytes, IF type \in DOMAIN MultipleOf THEN MultipleOf[type] ELSE type, behind)

\* The printer knows names and routes too, and shows all the values there are.
dhcptype_print_cfstr_simple(bytes, type) ==
    CASE type = "bool" -> bytes[1] # 0
      [] type \in {"uint8", "uint16", "uint32"} -> BigEndian(bytes, TypeSize[type])
      [] type = "ip" -> SubSeq(bytes, 1, 4)
      [] type = "string" -> bytes
      [] type = "dns_namelist" -> DNSNameListCreateArray(bytes)
      [] type = "classless_route" -> IPv4ClasslessRouteListCreate(bytes)
dhcptype_print_cfstr(bytes, type) ==
    IF type \notin DOMAIN MultipleOf THEN dhcptype_print_cfstr_simple(bytes, type)
    ELSE LET size == TypeSize[MultipleOf[type]]
         IN [i \in 1 .. Len(bytes) \div size |->
               dhcptype_print_cfstr_simple(SubSeq(bytes, size * (i - 1) + 1, size * i), MultipleOf[type])]

-----------------------------------------------------------------------------
(* The option area: [buf, size, reserve, end].                             *)

dhcpoa_init_common(size, reserve) == [buf |-> <<>>, size |-> size, reserve |-> reserve, end |-> FALSE]
dhcpoa_init(size) == dhcpoa_init_common(size, 1)
dhcpoa_init_no_end(size) == dhcpoa_init_common(size, 0)
dhcpoa_used(oa) == Len(oa.buf)
dhcpoa_freespace(oa) ==
    LET free == oa.size - Len(oa.buf) - oa.reserve IN IF free < 0 THEN 0 ELSE free

\* Mutant: the byte of the end tag is not left free.
AddUnreserved(oa, tag, val) ==
    LET bytes == IF tag \in {EndTag, PadTag} THEN <<tag>> ELSE <<tag, Len(val)>> \o val
    IN IF Len(oa.buf) + Len(bytes) > oa.size THEN [ok |-> FALSE, oa |-> oa]
       ELSE [ok |-> TRUE, oa |-> [oa EXCEPT !.buf = @ \o bytes, !.end = tag = EndTag]]
\* An option, or the end tag, for which the space is reserved.
dhcpoa_add(oa, tag, val) ==
    LET bytes == IF tag \in {EndTag, PadTag} THEN <<tag>> ELSE <<tag, Len(val)>> \o val
        reserve == IF tag = EndTag THEN 0 ELSE oa.reserve
    IN IF Len(val) > OptionSizeMax \/ oa.end \/ Len(oa.buf) + Len(bytes) + reserve > oa.size
         THEN [ok |-> FALSE, oa |-> oa]
         ELSE [ok |-> TRUE, oa |-> [oa EXCEPT !.buf = @ \o bytes, !.end = tag = EndTag]]

\* An option of the vendor area.  A full area goes out as one vendor-specific
\* option, and a new one begins in what the packet has left.  With less than
\* two bytes left the new size is negative, and clearing the area writes over
\* the rest of the address space.
dhcpoa_vendor_add(oa, voa, tag, val) ==
    LET flush == dhcpoa_freespace(voa) - 2 < Len(val)
        out == dhcpoa_add(oa, VendorTag, voa.buf)
        left == dhcpoa_freespace(out.oa) - 2
        new == dhcpoa_init_no_end(IF left > voa.size THEN voa.size ELSE left)
        r == dhcpoa_add(IF flush THEN new ELSE voa, tag, val)
    IN IF Len(val) > OptionSizeMax - 2 \/ (flush /\ ~out.ok)
         THEN [ok |-> FALSE, oa |-> oa, voa |-> voa, crash |-> FALSE]
         ELSE [ok |-> r.ok, oa |-> IF flush THEN out.oa ELSE oa, voa |-> r.oa,
               crash |-> flush /\ left < 0]

-----------------------------------------------------------------------------
(* The parser.  A list is a sequence of options, the end tag one of them.  *)

Broken == [ok |-> FALSE, list |-> <<>>]

RECURSIVE ParseFrom(_, _)
ParseFrom(buf, list) ==
    IF buf = <<>> THEN [ok |-> TRUE, list |-> list]
    ELSE IF buf[1] = EndTag THEN [ok |-> TRUE, list |-> Append(list, [tag |-> EndTag, val |-> <<>>])]
    ELSE IF buf[1] = PadTag THEN ParseFrom(Tail(buf), list)
    ELSE IF Len(buf) < 2 THEN Broken
    ELSE IF Len(buf) < buf[2] + 2 THEN Broken
    ELSE ParseFrom(SubSeq(buf, buf[2] + 3, Len(buf)),
                   Append(list, [tag |-> buf[1], val |-> SubSeq(buf, 3, buf[2] + 2)]))
dhcpol_parse_buffer(buf) == ParseFrom(buf, <<>>)

\* The first option with a tag: its bytes in a sequence of one, or none.
dhcpol_find(list, tag) ==
    LET found == SelectSeq(list, LAMBDA o : o.tag = tag /\ tag \notin {PadTag, EndTag})
    IN IF found = <<>> THEN <<>> ELSE <<found[1].val>>
dhcpol_find_with_length(list, tag, len) ==
    LET v == dhcpol_find(list, tag) IN IF v # <<>> /\ Len(v[1]) < len THEN <<>> ELSE v

\* All the parts of an option that was split; nothing of a tag that has no data.
dhcpol_option_copy(list, tag) ==
    IF tag \in {PadTag, EndTag} THEN <<>>
    ELSE FlattenSeq([i \in DOMAIN list |-> IF list[i].tag = tag THEN list[i].val ELSE <<>>])

\* The options, and those in the fields that option 52 declares overloaded.
dhcpol_parse_packet(buf, file, sname) ==
    LET r == dhcpol_parse_buffer(buf)
        o == dhcpol_find(r.list, OverloadTag)
        More(field, b) == IF o # <<>> /\ Len(o[1]) = 1 /\ o[1][1] \in Overload[field]
                            THEN dhcpol_parse_buffer(b).list ELSE <<>>
    IN IF r.ok THEN [r EXCEPT !.list = @ \o More("file", file) \o More("sname", sname)] ELSE r

dhcpol_parse_vendor(list) ==
    LET parts == SelectSeq(list, LAMBDA o : o.tag = VendorTag)
        p(i) == dhcpol_parse_buffer(parts[i].val)
    IN IF parts = <<>> \/ \E i \in DOMAIN parts : ~p(i).ok THEN Broken
       ELSE [ok |-> TRUE, list |-> FlattenSeq([i \in DOMAIN parts |-> p(i).list])]

-----------------------------------------------------------------------------

OptionsInit ==
    \E s \in AreaSize : area = [oa |-> dhcpoa_init(s), voa |-> dhcpoa_init_no_end(VendorSize),
                                added |-> <<>>, vadded |-> <<>>, text |-> <<>>,
                                done |-> FALSE, crashed |-> FALSE]

Filling == /\ ~area.done /\ ~area.crashed
           /\ Len(area.added) + Len(area.vadded) < MaxOptions

\* The caller goes on without an option that does not fit.
Added(r, tag, val, list) ==
    /\ r.ok
    /\ area' = [area EXCEPT !.oa = r.oa, !.added = Append(@, [tag |-> tag, val |-> val]),
                            !.text = Append(@, list)]
AddOption(tag, val) == Filling /\ Added(dhcpoa_add(area.oa, tag, val), tag, val, <<>>)

dhcpoa_add_from_strlist(tag, list, data) ==
    data.ok /\ Added(dhcpoa_add(area.oa, tag, data.bytes), tag, data.bytes, list)
AddFromStrings(tag, list) ==
    /\ Filling /\ Len(area.added) < MaxText /\ area.vadded = <<>>
    /\ dhcpoa_add_from_strlist(tag, list, dhcptag_from_strlist(list, tag, OptionSizeMax))

AddVendorOption(tag, val) ==
    LET r == dhcpoa_vendor_add(area.oa, area.voa, tag, val)
    IN /\ Filling
       /\ \/ r.crash /\ area' = [area EXCEPT !.crashed = TRUE]
          \/ /\ ~r.crash
             /\ area' = [area EXCEPT !.oa = r.oa, !.voa = r.voa,
                           !.vadded = IF r.ok THEN Append(@, [tag |-> tag, val |-> val]) ELSE @]

\* The vendor area goes out, then the end tag.  A reply whose vendor options
\* do not fit is not sent.
FinishReply ==
    LET v == IF area.voa.buf = <<>> THEN [ok |-> TRUE, oa |-> area.oa]
             ELSE dhcpoa_add(area.oa, VendorTag, area.voa.buf)
    IN /\ ~area.done /\ ~area.crashed
       /\ v.ok
       /\ area' = [area EXCEPT !.oa = dhcpoa_add(v.oa, EndTag, <<>>).oa, !.done = TRUE]

OptionsNext ==
    \/ \E tag \in OptionTag, val \in OptionVal : AddOption(tag, val) \/ AddVendorOption(tag, val)
    \/ \E tag \in DOMAIN TypeOf, list \in StrList : AddFromStrings(tag, list)
    \/ FinishReply

-----------------------------------------------------------------------------

\* A finished reply is terminated and its receiver finds in it what was
\* added: the options in their order, the vendor options however they were
\* split over several vendor-specific options, and nothing of a boot file
\* name unless option 52 says that options are there.
ParsesBack ==
    LET p == dhcpol_parse_packet(area.oa.buf, <<1, 0>>, <<>>)
        plain == SelectSeq(p.list, LAMBDA o : o.tag \notin {VendorTag, EndTag})
        v == dhcpol_parse_vendor(p.list)
        o == dhcpol_find(area.added, OverloadTag)
        file == IF o # <<>> /\ o[1] \in {<<1>>, <<3>>} THEN <<[tag |-> 1, val |-> <<>>]>> ELSE <<>>
    IN area.done => /\ p.ok /\ \E i \in DOMAIN p.list : p.list[i].tag = EndTag
                    /\ plain = area.added \o file
                    /\ v.list = area.vadded

\* The printer gives back the strings an option was made from: numbers within
\* their width, all the addresses, names and routes in their order.  Of a
\* destination the prefix length cuts off whole bytes, the default route
\* comes first.
PrintsBack(list, tag) ==
    LET type == TypeOf[tag]
        printed == dhcptype_print_cfstr(dhcpol_option_copy(area.added, tag), type)
    IN CASE type \in {"uint8", "uint16", "uint32"} -> printed = list[1].num
         [] type = "bool" -> printed <=> list[1].num # 0
         [] type = "string" -> printed = list[1].text
         [] type = "ip" -> printed = list[1].ip
         [] type \in DOMAIN MultipleOf -> printed = [k \in DOMAIN list |-> list[k].ip]
         [] type = "dns_namelist" -> printed = [k \in DOMAIN list |-> AsString(list[k].name, {})]
         [] type = "classless_route" ->
              /\ IPv4ClasslessRouteListGetDefault(printed) = printed[1]
              /\ \A k \in 1 .. Len(list) \div 2 : \E r \in DOMAIN printed :
                   /\ printed[r].gate = list[2 * k].ip
                   /\ \A b \in 1 .. Significant(printed[r].prefix) :
                        printed[r].dest[b] = list[2 * k - 1].ip[b]

\* What ipconfig getoption converts is the number, the string, or the first
\* address.  A bool that is set is never converted to 0; one that is not set
\* is if memory behind the option is zero.
ConvertsFirst(list, tag) ==
    LET bytes == dhcpol_find(area.added, tag)[1]
        got(behind) == dhcptag_to_str(bytes, tag, behind)
    IN \A behind \in Behind :
         CASE TypeOf[tag] \in {"uint8", "uint16", "uint32"} -> got(behind) = AsShown(list[1].num)
           [] TypeOf[tag] = "bool" ->
                /\ list[1].num # 0 => got(behind).value # 0
                /\ list[1].num = 0 /\ behind = <<0, 0, 0>> => got(behind) = AsShown(0)
           [] TypeOf[tag] = "string" -> got(behind) = AsShown(list[1].text)
           [] TypeOf[tag] \in {"ip", "ip_mult", "ip_pairs"} ->
                /\ dhcpol_find_with_length(area.added, tag, 4) # <<>>
                /\ got(behind) = AsShown(list[1].ip)
           [] OTHER -> ~got(behind).ok

\* Configuration strings survive the conversion to option data.
ConvertsBack ==
    \A i \in DOMAIN area.added : area.text[i] # <<>> =>
        /\ PrintsBack(area.text[i], area.added[i].tag)
        /\ ConvertsFirst(area.text[i], area.added[i].tag)

\* Options survive the option area and configuration strings the conversion.
OptionsSurvive == ParsesBack /\ ConvertsBack
=============================================================================
