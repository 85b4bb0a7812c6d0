-------------------------- MODULE MCPS2Conversion --------------------------
(***************************************************************************)
(* The instance of PS2Conversion that TLC checks.                          *)
(***************************************************************************)
EXTENDS PS2Conversion

\* Games: two in parts with the same title, one too large, and one small.
MCGames == {"twin", "other", "small", "huge"}
MCTitle == [g \in MCGames |-> IF g \in {"twin", "other"} THEN "same" ELSE g]
MCSize  == [g \in MCGames |-> CASE g = "twin" -> 3 [] g = "other" -> 2
                                [] g = "small" -> 1 [] g = "huge" -> 5]

\* Names in the order of the strings they stand for.
Config       == 1
Disc01       == 2
Eboot        == 3
Icon0        == 4
Image        == 5
KeystoneName == 6
Lua          == 7
SFO          == 8
Patches      == 9
SceSysName   == 10
MCEntSize == [name \in (-4 .. 10) \ {0} |->
                 IF name \in {Eboot, Image, SceSysName} THEN 2 ELSE 1]
MCEntryNames == {<<SFO>>, <<Icon0>>}
MCKeystone == <<SceSysName, KeystoneName>>
MCParamSFO == <<SceSysName, SFO>>
MCIcon     == <<SceSysName, Icon0>>
MCDisc     == <<Image, Disc01>>
MCConfig   == <<Config>>
MCLua      == <<Patches, Lua>>
MCExtras   == {{}, {MCLua, MCIcon}}
AllPaths   == {MCKeystone, MCDisc, MCConfig, MCLua, <<SceSysName>>, <<Image>>,
               <<Patches>>, <<Eboot>>, <<Image, Eboot>>, <<Image, Icon0>>,
               <<Icon0>>, <<Lua>>, <<Disc01>>}

\* The ISO hashes like another file next to it, and so does the script.
MCPathHash == [path \in AllPaths |->
                  CASE path \in {MCDisc, <<Image, Eboot>>} -> 7
                    [] path \in {MCLua, <<Image, Icon0>>}  -> 5
                    [] OTHER -> 10 * Len(path) + path[Len(path)]]

\* An emulator as it should be, one without a configuration and with a root
\* whose entries do not fit its blocks, and one with more files in a directory:
\* its table is in two blocks, and with the script there are two collisions and a
\* resolver with more blocks than its inode has direct slots.
MCTemplates ==
    {[dirs |-> {<<SceSysName>>},
      files |-> (MCConfig :> 1) @@ (<<Eboot>> :> 9) @@ (MCKeystone :> 1)],
     [dirs |-> {<<SceSysName>>}, files |-> (<<Icon0>> :> 0)],
     [dirs |-> {<<SceSysName>>, <<Image>>},
      files |-> (MCConfig :> 1) @@ (<<Image, Eboot>> :> 8)
                @@ (<<Image, Icon0>> :> 3) @@ (<<Eboot>> :> 3)
                @@ (<<Lua>> :> 0) @@ (<<Disc01>> :> 0)]}

MCEntrySize == [name \in {"entry_keys", "image_key", "general_digests", "entry_names",
                          "chunk_dat", "manifest", "license", "license_info",
                          "param_sfo", "ps_reserved"} |-> 3]
=============================================================================
