----------------------------- MODULE Addresses ------------------------------
(***************************************************************************)
(* Addresses and families.  Of a net.IP the code looks only at what To4    *)
(* answers, so three kinds of address are enough: an IPv6 one, an IPv4     *)
(* one, and an IPv4 one written as ::ffff:a.b.c.d, which To4 converts.     *)
(***************************************************************************)

NoIP == "no ip"     \* a nil net.IP

IPs == {"ipv4", "ipv4-mapped", "ipv6"}

Families == {"4", "6"}

Versions == {"Any", "IPv4Only", "IPv6Only"}

\* ip.To4() != nil.  A nil address has no 4-byte form.
To4(ip) == ip \in {"ipv4", "ipv4-mapped"}

FamilyOf(version) ==
  CASE version = "IPv4Only" -> "4"
    [] version = "IPv6Only" -> "6"
    [] version = "Any"      -> ""

FamilyMismatch(ip, family) ==
  \/ family = "4" /\ ~ To4(ip)
  \/ family = "6" /\ To4(ip)

VersionOf(ip) == IF To4(ip) THEN "IPv4Only" ELSE "IPv6Only"
=============================================================================
