SPECIFICATION MCSpec
CONSTANTS
    lua = lua
    top = top
    relative = relative
    slashed = slashed
    luaFile = luaFile
    topFile = topFile
    bad = bad
    colon = colon
    Names = {relative, slashed}
    Absolute <- MCAbsolute
    Dirs = {lua, top}
    Home = lua
    PathOf <- MCPathOf
    Paths = {luaFile, topFile}
    NoPath = NoPath
    Texts = {bad, colon}
    Empty = Empty
    Cut = Empty
    NoFile = NoFile
    Endings <- MCEndings
    FirstLine <- MCFirstLine
    NoChunk = NoChunk
    Success = Success
    Saved <- MCSaved
    NoName = NoName
    MaxDepth = 2
    luaDir = luaDir
    a = a
    Slash = Slash
    Up = Up
    HomeDir = luaDir
    Places <- MCPlaces
    FileArgs <- MCFileArgs
    DirArgs <- MCDirArgs
    NewDirArgs <- MCNewDirArgs
    MaxOpen = 2
    Bytes = {x}
    MaxSize = 1
    Dir = Dir
    NoneThere = NoneThere
PROPERTIES
    LastFileStarted
