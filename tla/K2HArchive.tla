------------------------------ MODULE K2HArchive ------------------------------
(***************************************************************************)
(* The commands of an archive (src/lib/k2hcommand.cc) and what loading one   *)
(* does to a store (src/lib/k2harchive.cc).  A store is a function of keys   *)
(* to the elements of that key in the order in which a search finds them.    *)
(* The process that loads sets no attributes of its own.                     *)
(***************************************************************************)
EXTENDS K2HSubKeys, K2HAttr

\* An element: value, subkeys and attributes.
ElementOf(value, subs, attrs) == [value |-> value, subs |-> subs, attrs |-> attrs]
NoValue == Stored(NoText, NoPass, "pbkdf2")

\* The commands, with what each carries.
SetAll(key, e) == [type |-> "SET_ALL", key |-> key, data |-> e]
ReplaceSKey(key, subs) == [type |-> "REPLACE_SKEY", key |-> key, data |-> subs]
ReplaceAttrs(key, attrs) == [type |-> "REPLACE_ATTRS", key |-> key, data |-> attrs]
DelKey(key) == [type |-> "DEL_KEY", key |-> key, data |-> <<>>]
Rename(key, new, attrs) ==
    [type |-> "RENAME", key |-> key, data |-> [new |-> new, attrs |-> attrs]]

\* The element of a key is the first one found; what is inserted goes behind.
Missing(store, key) == store[key] = <<>>
Found(store, key) == Head(store[key])
Take(store, key) == [store EXCEPT ![key] = Tail(@)]
Put(store, key, e) == [store EXCEPT ![key] = Append(@, e)]

WithPart(e, part, data) == ElementOf(IF part = "value" THEN data ELSE e.value,
                                     IF part = "subs"  THEN data ELSE e.subs,
                                     IF part = "attrs" THEN data ELSE e.attrs)

\* Replace: one part of the element.  For a key that is missing it is a Set, which
\* makes of given attributes what the settings of the loader ask for.
Replace(store, key, part, data) ==
    LET new == WithPart(ElementOf(NoValue, <<>>, NoAttrs), part, data)
        set == UpdateAttr(Unset, new.attrs, NoText, NoPass, NotExpire, 0, 0)
    IN  IF Missing(store, key)
        THEN Put(store, key, [new EXCEPT !.attrs = set.attrs])
        ELSE [store EXCEPT ![key][1] = WithPart(@, part, data)]

\* ReplaceAll, by parts: the value always, subkeys and attributes when there are any.
ReplaceParts(store, key, e) ==
    LET valued == Replace(store, key, "value", e.value)
        listed == IF e.subs = <<>> THEN valued ELSE Replace(valued, key, "subs", e.subs)
    IN  IF e.attrs = NoAttrs THEN listed ELSE Replace(listed, key, "attrs", e.attrs)

\* Rename of a loader: the attributes that come with it, if any, replace the old.
RenameIn(store, key, data) ==
    LET e == Found(store, key)
    IN  IF Missing(store, key) THEN store
        ELSE Put(Take(store, key), data.new,
                 [e EXCEPT !.attrs = IF data.attrs = NoAttrs THEN @ ELSE data.attrs])

\* One command of the archive.
Load(store, c) ==
    CASE c.type = "SET_ALL"       -> ReplaceParts(store, c.key, c.data)
      [] c.type = "REPLACE_SKEY"  -> Replace(store, c.key, "subs", c.data)
      [] c.type = "REPLACE_ATTRS" -> Replace(store, c.key, "attrs", c.data)
      [] c.type = "DEL_KEY"       -> IF Missing(store, c.key) THEN store
                                     ELSE Take(store, c.key)
      [] c.type = "RENAME"        -> RenameIn(store, c.key, c.data)

LoadAll(store, commands) == Folded(Load, store, commands)

\* Save: a command for each element.
Save(store) ==
    LET full == {key \in DOMAIN store : ~Missing(store, key)}
        keys == SetToSeq(full)
    IN  [i \in DOMAIN keys |->
            SetAll(keys[i], ElementOf(Found(store, keys[i]).value, Found(store, keys[i]).subs,
                                      Found(store, keys[i]).attrs))]
=============================================================================
