CONSTANTS
  datasheet = datasheet
  certificate = certificate
  photo = photo
  d1 = d1
  d2 = d2
  Types <- AllTypes
  Singletons <- OnePerMaterial
  Columned <- AllTypes
  Photos <- PhotosOnly
  Descriptions <- TwoDescriptions
  MaxDocuments = 2
  MaxInputs = 2
SPECIFICATION Spec
CHECK_DEADLOCK FALSE
PROPERTIES
  NothingFiledIsDiscarded
