CONSTANTS
  InodeCount = 4
  Names = {"a"}
  DirItems = 4
  MaxItems = 4
  Unusual = {"corrupt", "mvdir", "nodir"}
SPECIFICATION Spec
CONSTRAINT UntangledOneMoved
PROPERTY FsckSaves
