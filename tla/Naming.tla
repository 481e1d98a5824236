-------------------------------- MODULE Naming --------------------------------
(***************************************************************************)
(* How names are derived from a domain (services/site_service.go) and how  *)
(* the name of a database is cleaned, cut and made unique                  *)
(* (services/database_service.go).  A name is a sequence of characters; a  *)
(* domain has been through normalizeDomain.  The suffixes and limits are   *)
(* parameters: 24 and 32 bytes in the code.                                *)
(***************************************************************************)
EXTENDS Naturals, Sequences, FiniteSetsExt

CONSTANTS
  BaseLimit, NameLimit, UserLimit,  \* the lengths that names are cut to
  UserPrefix, SiteUser,             \* "kb_", and "site" for want of anything better
  DatabaseSuffix, DefaultSuffix,    \* "_wp" and "_db"
  Suffix,                           \* the digits of a number, as a function
  Allowed                           \* lowercase letters, digits and the underscore

\* strings.NewReplacer, strings.Trim and TrimRight for underscores, and slices.
Underscored(s, chars) == [i \in DOMAIN s |-> IF s[i] \in chars THEN "_" ELSE s[i]]
Plain(s) == {i \in DOMAIN s : s[i] # "_"}
Trim(s) == IF Plain(s) = {} THEN <<>> ELSE SubSeq(s, Min(Plain(s)), Max(Plain(s)))
TrimRight(s) == IF Plain(s) = {} THEN <<>> ELSE SubSeq(s, 1, Max(Plain(s)))
Cut(s, max) == IF Len(s) <= max THEN s ELSE SubSeq(s, 1, max)

BuildSystemUser(domain) ==
  LET base == Trim(Underscored(domain, {".", "-"})) IN
  Cut(UserPrefix \o (IF base = <<>> THEN SiteUser ELSE base), UserLimit)

DeriveDatabaseName(domain) ==
  Cut(Cut(Trim(Underscored(domain, {".", "-"})), BaseLimit) \o DatabaseSuffix, NameLimit)

SanitizeDatabaseIdentifier(s) ==
  LET allowed(c) == c \in Allowed IN
  Trim(SelectSeq(Underscored(s, {" ", "-", "."}), allowed))

LimitIdentifier(s, max) == IF Len(s) <= max THEN s ELSE TrimRight(SubSeq(s, 1, max))

\* The default name of a database for a site, before and after it is cut.
DefaultName(domain) ==
  LimitIdentifier(SanitizeDatabaseIdentifier(domain) \o DefaultSuffix, NameLimit)

\* What makeUniqueDatabaseName tries: the base, and the base with a number.
CandidateName(base, number) ==
  IF number = 0 THEN base ELSE LimitIdentifier(base \o <<"_">> \o Suffix[number], NameLimit)
=============================================================================
