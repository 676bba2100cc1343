------------------------------- MODULE K2HAttr -------------------------------
(***************************************************************************)
(* The attributes of a key: the list of names and values of                 *)
(* src/lib/k2hattrs.cc, and what the builtin handler                        *)
(* (src/lib/k2hattrbuiltin.cc) puts in it, reads from it and does to the     *)
(* value.  A password and its MD5 are one; a time is a number.               *)
(***************************************************************************)
EXTENDS Integers, Sequences, Functions

\* No text (a key without a value), no password, no expiry.
NoText == "none"
NoPass == "none"
NotExpire == -1

\* The names under which the two kinds of encryption leave their password.
EncTypes == {"aes256md5", "pbkdf2"}

\* The attributes are a function of the names that are set.
NoAttrs == <<>>
GetAttr(attrs, name) == attrs[name]
HasAttr(attrs, name) == name \in DOMAIN attrs
SetAttr(attrs, name, val) ==
    [n \in DOMAIN attrs \cup {name} |-> IF n = name THEN val ELSE attrs[n]]
RemoveAttr(attrs, name) == Restrict(attrs, DOMAIN attrs \ {name})

\* What is stored of a text: the text, or what pass and enctype make of it.
Stored(text, pass, enctype) ==
    [text |-> text, pass |-> pass, type |-> IF pass = NoPass THEN "plain" ELSE enctype]

\* Neither mtime nor history nor expiry nor encryption: what a process has that
\* sets nothing.
Unset == [mtime |-> FALSE, history |-> FALSE, expire |-> NotExpire, defenc |-> FALSE,
          passes |-> {}, default |-> NoPass, type |-> "pbkdf2"]

\* A file of passwords: they are added, the first becomes the default.
LoadEncryptPassMap(pack, file) ==
    [pack EXCEPT !.passes = @ \cup Range(file),
                 !.default = IF file = <<>> THEN NoPass ELSE Head(file)]

\* The settings of a process: the password file after the switches.  Encryption
\* by default needs a default password.
Pack(s) ==
    LET switched == [Unset EXCEPT !.mtime = s.mtime, !.history = s.history,
                                  !.expire = s.expire, !.defenc = s.defenc, !.type = s.type]
    IN  IF s.file = <<>> THEN switched ELSE LoadEncryptPassMap(switched, s.file)

Initialized(pack) == pack.defenc => pack.default # NoPass

\* One more password; as the default it turns encryption on.
AddCryptPass(pack, pass, isDefault) ==
    [pack EXCEPT !.passes = @ \cup {pass},
                 !.defenc = @ \/ isDefault,
                 !.default = IF isDefault THEN pass ELSE @]

\* The time of this update, if the process keeps it.
Stamped(pack, attrs, now) ==
    IF pack.mtime THEN SetAttr(attrs, "mtime", now) ELSE RemoveAttr(attrs, "mtime")

\* The expiry the call asks for, else the one of the process.
Expiring(pack, attrs, expire, now) ==
    LET secs == IF expire # NotExpire THEN expire ELSE pack.expire
    IN  IF secs # NotExpire THEN SetAttr(attrs, "expire", now + secs)
                            ELSE RemoveAttr(attrs, "expire")

\* The password a text is encrypted with.
PassFor(pack, text, pass) ==
    IF text = NoText THEN NoPass
    ELSE IF pass # NoPass THEN pass
    ELSE IF pack.defenc THEN pack.default ELSE NoPass

\* The attribute of the kind of encryption the process is set to.
Encrypted_LeftOnPlain(pack, attrs, pass) ==
    IF pass # NoPass THEN SetAttr(attrs, pack.type, pass) ELSE attrs

Encrypted(pack, attrs, pass) ==
    IF pass # NoPass THEN SetAttr(attrs, pack.type, pass) ELSE RemoveAttr(attrs, pack.type)

\* A new unique id, with the one it follows as its parent; 0 is none.
Identified(attrs, uid, parent) ==
    LET named == SetAttr(attrs, "uniqid", uid)
    IN  IF parent = 0 THEN named ELSE SetAttr(named, "parentuniqid", parent)

GetUniqId(attrs) == IF HasAttr(attrs, "uniqid") THEN GetAttr(attrs, "uniqid") ELSE 0

\* UpdateAttr: the attributes and the value to store, the unique id that was
\* followed, and the next one that is free.
UpdateAttr(pack, attrs, text, pass, expire, now, uid) ==
    LET with  == PassFor(pack, text, pass)
        coded == Encrypted(pack, Expiring(pack, Stamped(pack, attrs, now), expire, now), with)
        old   == IF pack.history /\ with # NoPass THEN GetUniqId(coded) ELSE 0
        fresh == pack.history /\ (with # NoPass \/ GetUniqId(coded) = 0)
    IN  [attrs |-> IF fresh THEN Identified(coded, uid, old) ELSE coded,
         value |-> Stored(text, with, pack.type),
         old   |-> old,
         uid   |-> IF fresh THEN uid + 1 ELSE uid]

\* DirectSetUniqId: a new unique id that follows parent, or the one that is there.
DirectSetUniqId_ParentKept(pack, attrs, parent, uid) ==
    IF pack.history THEN SetAttr(attrs, "uniqid", uid) ELSE attrs

DirectSetUniqId(pack, attrs, parent, uid) ==
    IF pack.history
    THEN Identified(attrs, uid, IF parent = 0 THEN GetUniqId(attrs) ELSE parent)
    ELSE attrs

MarkHistory(attrs) == SetAttr(attrs, "hismark", TRUE)
IsHistory(attrs) == HasAttr(attrs, "hismark") /\ GetAttr(attrs, "hismark")

IsExpire(attrs, now) == HasAttr(attrs, "expire") /\ GetAttr(attrs, "expire") < now

\* The kind of encryption, PBKDF2 first, and its password.
IsValueEncrypted(attrs) == \E enc \in EncTypes : HasAttr(attrs, enc)
GetEncryptType(attrs) == IF HasAttr(attrs, "pbkdf2") THEN "pbkdf2" ELSE "aes256md5"
GetEncryptKeyMd5(attrs) == GetAttr(attrs, GetEncryptType(attrs))

\* Decrypting with another password or another kind fails; what is stored as it
\* is comes back as it is, be it a text or what encryption made of one.
Decrypt(value, pass, enctype) ==
    IF value.pass = pass /\ value.type = enctype THEN value.text ELSE NoText

GetDecryptValue(pack, attrs, value, pass) ==
    LET known == GetEncryptKeyMd5(attrs)
    IN  IF ~IsValueEncrypted(attrs)
        THEN IF value.type = "plain" THEN value.text ELSE NoText
        ELSE IF known = pass \/ (pass = NoPass /\ known \in pack.passes)
        THEN Decrypt(value, known, GetEncryptType(attrs))
        ELSE NoText
=============================================================================
